---- MODULE Spec2Model ----
(***************************************************************************)
(* A model of the report pipeline of hebrew-analytics-telegram-bot:        *)
(*   preprocess.py  value coercion (coerce_numeric, detect_and_parse_dates)*)
(*   pdf_report.py  font resolution, layout, guaranteed sections, assembly *)
(*                                                                         *)
(* Python strings are sequences of one-character strings.  A float is the  *)
(* exact decimal m / 10^e (binary rounding is not modelled).               *)
(***************************************************************************)
EXTENDS Integers, Sequences, FiniteSets, TLC

(***************************************************************************)
(* Cells of a table column.                                                *)
(***************************************************************************)
Null == [k |-> "null"]                      \* Python None in an object column
NaN == [k |-> "nan"]                        \* numpy.nan produced by a coercion
Str(s) == [k |-> "str", s |-> s]            \* a text cell
Num(m, e) == [k |-> "num", m |-> m, e |-> e]  \* the number m / 10^e
Date(d, m, y) == [k |-> "date", d |-> d, mo |-> m, y |-> y]

NaT == [k |-> "nat"]                        \* pandas.NaT produced by a date parse

IsNa(c) == c.k \in {"null", "nan", "nat"}

RECURSIVE Pow10(_)
Pow10(n) == IF n = 0 THEN 1 ELSE 10 * Pow10(n - 1)

\* Two floats denote the same real number.
NumEq(a, b) == a.k = "num" /\ b.k = "num" /\ a.m * Pow10(b.e) = b.m * Pow10(a.e)

\* The canonical representation of m / 10^e (no trailing zero in the fraction).
RECURSIVE Norm(_, _)
Norm(m, e) == IF e > 0 /\ m % 10 = 0 THEN Norm(m \div 10, e - 1) ELSE Num(m, e)

(***************************************************************************)
(* String helpers (str methods and the re module, as the code uses them).  *)
(***************************************************************************)
Digits == {"0", "1", "2", "3", "4", "5", "6", "7", "8", "9"}

DigitVal(c) ==
  CASE c = "0" -> 0 [] c = "1" -> 1 [] c = "2" -> 2 [] c = "3" -> 3 [] c = "4" -> 4
    [] c = "5" -> 5 [] c = "6" -> 6 [] c = "7" -> 7 [] c = "8" -> 8 [] c = "9" -> 9

DigitChar(d) ==
  CASE d = 0 -> "0" [] d = 1 -> "1" [] d = 2 -> "2" [] d = 3 -> "3" [] d = 4 -> "4"
    [] d = 5 -> "5" [] d = 6 -> "6" [] d = 7 -> "7" [] d = 8 -> "8" [] d = 9 -> "9"

\* str(n) of a non-negative int.
RECURSIVE NatToStr(_)
NatToStr(n) == IF n < 10 THEN <<DigitChar(n)>> ELSE NatToStr(n \div 10) \o <<DigitChar(n % 10)>>

\* int value of a string of digits ("" gives 0).
RECURSIVE DigitsToNat(_)
DigitsToNat(s) ==
  IF s = <<>> THEN 0
  ELSE 10 * DigitsToNat(SubSeq(s, 1, Len(s) - 1)) + DigitVal(s[Len(s)])

Contains(s, c) == \E i \in 1..Len(s) : s[i] = c

Count(s, c) == Cardinality({i \in 1..Len(s) : s[i] = c})

\* str.find(c), 1-based; 0 when absent.
Find(s, c) == IF Contains(s, c) THEN CHOOSE i \in 1..Len(s) : s[i] = c /\ \A j \in 1..(i - 1) : s[j] # c ELSE 0

\* position of the last occurrence of c; 0 when absent.
RFind(s, c) == IF Contains(s, c) THEN CHOOSE i \in 1..Len(s) : s[i] = c /\ \A j \in (i + 1)..Len(s) : s[j] # c ELSE 0

\* s.replace(c, '')
Remove(s, c) == SelectSeq(s, LAMBDA x : x # c)

\* s.replace(c, d) for single characters
Replace(s, c, d) == [i \in 1..Len(s) |-> IF s[i] = c THEN d ELSE s[i]]

IsSpace(c) == c = " "

RECURSIVE LStrip(_)
LStrip(s) == IF s # <<>> /\ IsSpace(s[1]) THEN LStrip(Tail(s)) ELSE s

RECURSIVE RStrip(_)
RStrip(s) == IF s # <<>> /\ IsSpace(s[Len(s)]) THEN RStrip(SubSeq(s, 1, Len(s) - 1)) ELSE s

\* str.strip()
Strip(s) == RStrip(LStrip(s))

\* str.lstrip('+')
RECURSIVE LStripPlus(_)
LStripPlus(s) == IF s # <<>> /\ s[1] = "+" THEN LStripPlus(Tail(s)) ELSE s

\* length of the run of digits of s that starts at position i
RECURSIVE DigitRun(_, _)
DigitRun(s, i) == IF i <= Len(s) /\ s[i] \in Digits THEN 1 + DigitRun(s, i + 1) ELSE 0

(***************************************************************************)
(* float(s) for a string over digits, '.', '+', '-' (what is left after    *)
(* the code's re.sub): [sign] digits [. digits] or [sign] . digits.        *)
(* Anything else raises ValueError.                                        *)
(***************************************************************************)
ValueError == [k |-> "ValueError"]

FloatBody(s) == IF s # <<>> /\ s[1] \in {"+", "-"} THEN Tail(s) ELSE s

FloatValid(s) ==
  LET b == FloatBody(s)
  IN /\ b # <<>>
     /\ \A i \in 1..Len(b) : b[i] \in Digits \cup {"."}
     /\ Count(b, ".") <= 1
     /\ \E i \in 1..Len(b) : b[i] \in Digits

ParseFloat(s) ==
  IF ~FloatValid(s) THEN ValueError
  ELSE LET b == FloatBody(s)
           dot == Find(b, ".")
           e == IF dot = 0 THEN 0 ELSE Len(b) - dot
           mag == DigitsToNat(Remove(b, "."))
       IN Norm(IF s[1] = "-" THEN 0 - mag ELSE mag, e)

Neg(v) == Num(0 - v.m, v.e)

\* v / 100
Div100(v) == Norm(v.m, v.e + 2)

(***************************************************************************)
(* re.search(r'([-+]?\d*\.?\d+)', s): the leftmost match, greedy with      *)
(* backtracking.  At start i: an optional sign, the longest run of digits, *)
(* then '.' and digits when a digit follows the '.', else the digits alone.*)
(***************************************************************************)
PercentMatchEnd(s, i) ==
  LET j == IF s[i] \in {"+", "-"} THEN i + 1 ELSE i
      k == j + DigitRun(s, j)
  IN IF k + 1 <= Len(s) /\ s[k] = "." /\ s[k + 1] \in Digits
       THEN k + 1 + DigitRun(s, k + 1)
     ELSE IF k > j THEN k
     ELSE 0                                  \* no match at i

PercentSearch(s) ==
  LET starts == {i \in 1..Len(s) : PercentMatchEnd(s, i) # 0}
  IN IF starts = {} THEN <<>>
     ELSE LET i == CHOOSE x \in starts : \A y \in starts : x <= y
          IN SubSeq(s, i, PercentMatchEnd(s, i) - 1)

\* re.sub(r'[^\d\.,+-]', '', val_str)
KeptChars == Digits \cup {".", ",", "+", "-"}

StripNonNumeric(s) == SelectSeq(s, LAMBDA c : c \in KeptChars)

\* separator rules that take every comma for a thousands separator
FixCommasAllThousands(c) == Remove(c, ",")

\* the separator rules of clean_numeric_value, lines 83-104
FixCommas(c) ==
  IF Contains(c, ",") /\ Contains(c, ".")
    THEN IF Find(c, ",") < Find(c, ".")
           THEN Remove(c, ",")
           ELSE Replace(Remove(c, "."), ",", ".")
  ELSE IF Contains(c, ",")
    THEN LET lastLen == Len(c) - Find(c, ",")      \* len(comma_parts[1]) when there is one comma
         IN IF Count(c, ",") = 1 /\ lastLen = 3 THEN Remove(c, ",")
            ELSE IF Count(c, ",") = 1 /\ lastLen <= 2 THEN Replace(c, ",", ".")
            ELSE Remove(c, ",")
  ELSE c

\* lines 106-109: all dots but the last are dropped
CollapseDots(c) ==
  IF Count(c, ".") > 1
    THEN LET last == RFind(c, ".")
         IN Remove(SubSeq(c, 1, last - 1), ".") \o SubSeq(c, last, Len(c))
  ELSE c

\* lines 114-119: float() inside try/except (ValueError, TypeError) -> nan
FloatOrNan(cleaned, is_negative) ==
  LET r == ParseFloat(cleaned)
  IN IF r = ValueError THEN NaN
     ELSE IF is_negative THEN Neg(r) ELSE r

\* lines 68-71: the percentage branch; float() is outside any try
PercentBranch(val_str) ==
  LET g == PercentSearch(val_str)
      r == ParseFloat(g)
  IN IF r = ValueError THEN ValueError ELSE Div100(r)

\* clean_numeric_value(val) for a cell of clean_series (a string or nan)
clean_numeric_value(val) ==
  IF IsNa(val) \/ val.s = <<"n", "a", "n">> THEN NaN
  ELSE LET val_str == Strip(val.s)
       IN IF val_str = <<>> THEN NaN
          ELSE IF Contains(val_str, "%") /\ PercentSearch(val_str) # <<>>
            THEN PercentBranch(val_str)
          ELSE LET is_negative == Contains(val_str, "(") /\ Contains(val_str, ")")
                   cleaned == StripNonNumeric(val_str)
               IN IF cleaned = <<>> THEN NaN
                  ELSE FloatOrNan(LStripPlus(CollapseDots(FixCommas(cleaned))), is_negative)

(***************************************************************************)
(* coerce_numeric(series), preprocess.py lines 38-136.                     *)
(***************************************************************************)
\* pandas' dtype of a column holding these cells
DType(col) ==
  IF \E i \in 1..Len(col) : col[i].k = "str" THEN "object"
  ELSE IF \E i \in 1..Len(col) : col[i].k = "date" THEN "datetime64"
  ELSE IF \E i \in 1..Len(col) : col[i].k = "num" THEN "float64"
  ELSE "object"                              \* no value at all: a column of None

\* pd.api.types.is_numeric_dtype
is_numeric_dtype(col) == DType(col) = "float64"

RECURSIVE PadZeros(_, _)
PadZeros(s, n) == IF Len(s) >= n THEN s ELSE PadZeros(<<"0">> \o s, n)

\* str(x) of a native number
NumToStr(v) ==
  LET mag == IF v.m < 0 THEN 0 - v.m ELSE v.m
      sign == IF v.m < 0 THEN <<"-">> ELSE <<>>
  IN IF v.e = 0 THEN sign \o NatToStr(mag)
     ELSE sign \o NatToStr(mag \div Pow10(v.e)) \o <<".">> \o PadZeros(NatToStr(mag % Pow10(v.e)), v.e)

\* the strings line 57 replaces by nan
NaStrings == {<<"n", "a", "n">>, <<"N", "a", "N">>, <<"N", "o", "n", "e">>, <<"n", "u", "l", "l">>, <<>>}

\* lines 56-57: astype(str), then the na strings become nan
AsStr(c) ==
  CASE c.k = "null" -> <<"N", "o", "n", "e">>
    [] c.k = "nan" -> <<"n", "a", "n">>
    [] c.k = "num" -> NumToStr(c)
    [] c.k = "str" -> c.s

CleanCell(c) == IF AsStr(c) \in NaStrings THEN NaN ELSE Str(AsStr(c))

\* line 130: conversion_rate >= 0.5
NumericAcceptPct == 50

\* The threshold taken strictly.
AcceptNumericStrict(non_null_count, original_non_null) ==
  100 * non_null_count > NumericAcceptPct * original_non_null

AcceptNumeric(non_null_count, original_non_null) ==
  100 * non_null_count >= NumericAcceptPct * original_non_null

\* A conversion that keeps the original value where a cell does not convert.
NumericSeriesKeepingFailed(series) ==
  [i \in 1..Len(series) |->
     LET v == clean_numeric_value(CleanCell(series[i]))
     IN IF v.k = "num" \/ IsNa(series[i]) THEN v ELSE series[i]]

\* line 122: clean_series.apply(clean_numeric_value)
NumericSeries(series) == [i \in 1..Len(series) |-> clean_numeric_value(CleanCell(series[i]))]

Returned(col) == [exc |-> "none", col |-> col]
Raised(e) == [exc |-> e, col |-> <<>>]

coerce_numeric(series) ==
  IF is_numeric_dtype(series) THEN Returned(series)
  ELSE LET numeric_series == NumericSeries(series)
           non_null_count == Cardinality({i \in 1..Len(series) : numeric_series[i].k = "num"})
           original_non_null == Cardinality({i \in 1..Len(series) : ~IsNa(series[i])})
       IN IF \E i \in 1..Len(series) : numeric_series[i] = ValueError
            THEN Raised("ValueError")        \* an exception of apply() leaves coerce_numeric
          ELSE IF original_non_null > 0 /\ AcceptNumeric(non_null_count, original_non_null)
            THEN Returned(numeric_series)
          ELSE Returned(series)

(***************************************************************************)
(* detect_and_parse_dates(df), preprocess.py lines 139-193.                *)
(***************************************************************************)
AllDigits(s, from, n) == from + n - 1 <= Len(s) /\ \A i \in from..(from + n - 1) : s[i] \in Digits

\* re.search of  \d{a}[seps]\d{b}[seps]\d{c}  with a, b, c ranging over the
\* given sets of lengths: some start and some lengths match.
SearchDatePattern(s, aLens, seps, bLens, cLens) ==
  \E i \in 1..Len(s) : \E a \in aLens, b \in bLens, c \in cLens :
    /\ i + a + b + c + 1 <= Len(s)
    /\ AllDigits(s, i, a)
    /\ s[i + a] \in seps
    /\ AllDigits(s, i + a + 1, b)
    /\ s[i + a + b + 1] \in seps
    /\ AllDigits(s, i + a + b + 2, c)

\* lines 153-158, date_indicators
MatchesDateIndicator(s) ==
  \/ SearchDatePattern(s, {1, 2}, {"/", "-"}, {1, 2}, {2, 3, 4})
  \/ SearchDatePattern(s, {4}, {"/", "-"}, {1, 2}, {1, 2})
  \/ SearchDatePattern(s, {1, 2}, {"."}, {1, 2}, {2, 3, 4})
  \/ SearchDatePattern(s, {4}, {"."}, {1, 2}, {1, 2})

\* df[col].dropna()
RECURSIVE DropNa(_)
DropNa(col) ==
  IF col = <<>> THEN <<>>
  ELSE IF IsNa(col[1]) THEN DropNa(Tail(col)) ELSE <<col[1]>> \o DropNa(Tail(col))

\* line 149: .head(10)
SampleSize == 10

FirstN(col, n) == SubSeq(col, 1, IF Len(col) < n THEN Len(col) ELSE n)

sample_values(col) == FirstN(DropNa(col), SampleSize)

\* lines 161-167
might_be_dates(sample) ==
  Cardinality({i \in 1..Len(sample) : MatchesDateIndicator(Strip(AsStr(sample[i])))})

\* line 170: might_be_dates / len(sample_values) > 0.3
DateSamplePct == 30

LooksLikeDatesAtLeast(matches, n) == 100 * matches >= DateSamplePct * n

LooksLikeDates(matches, n) == 100 * matches > DateSamplePct * n

\* line 184: success_rate >= 0.6
DateAcceptPct == 60

AcceptDates(parsed, original) == 100 * parsed >= DateAcceptPct * original

(***************************************************************************)
(* pd.to_datetime(x, dayfirst=True, errors='coerce') of one value, for the *)
(* forms D/M/Y, D-M-Y, D.M.Y, Y-M-D, Y/M/D, Y.M.D and YYYYMMDD: the day is *)
(* read first, and a value that is no date gives NaT.                      *)
(***************************************************************************)
\* the three fields of  digits sep digits sep digits, or <<>>
DateFields(s) ==
  LET a == DigitRun(s, 1)
      b == DigitRun(s, a + 2)
      c == DigitRun(s, a + b + 3)
  IN IF /\ a > 0 /\ b > 0 /\ c > 0
        /\ a + b + c + 2 = Len(s)
        /\ s[a + 1] \in {"/", "-", "."}
        /\ s[a + b + 2] = s[a + 1]
       THEN <<SubSeq(s, 1, a), SubSeq(s, a + 2, a + b + 1), SubSeq(s, a + b + 3, Len(s))>>
     ELSE <<>>

ValidDate(d, m, y) == IF d \in 1..31 /\ m \in 1..12 THEN Date(d, m, y) ELSE NaT

ParseDayFirst(s) ==
  LET f == DateFields(s)
  IN IF f # <<>>
       THEN IF Len(f[1]) = 4 /\ Len(f[2]) <= 2 /\ Len(f[3]) <= 2
              THEN ValidDate(DigitsToNat(f[3]), DigitsToNat(f[2]), DigitsToNat(f[1]))
            ELSE IF Len(f[1]) <= 2 /\ Len(f[2]) <= 2 /\ Len(f[3]) = 4
              THEN IF DigitsToNat(f[2]) \in 1..12
                     THEN ValidDate(DigitsToNat(f[1]), DigitsToNat(f[2]), DigitsToNat(f[3]))
                     ELSE ValidDate(DigitsToNat(f[2]), DigitsToNat(f[1]), DigitsToNat(f[3]))
            ELSE NaT
     ELSE IF Len(s) = 8 /\ AllDigits(s, 1, 8)
       THEN ValidDate(DigitsToNat(SubSeq(s, 7, 8)), DigitsToNat(SubSeq(s, 5, 6)), DigitsToNat(SubSeq(s, 1, 4)))
     ELSE NaT

to_datetime(col) ==
  [i \in 1..Len(col) |-> IF col[i].k = "str" THEN ParseDayFirst(Strip(col[i].s)) ELSE NaT]

\* the body of the loop of lines 146-191 for one column
DateColumn(col) ==
  IF DType(col) # "object" THEN col
  ELSE LET sample == sample_values(col)
       IN IF Len(sample) = 0 THEN col
          ELSE IF ~LooksLikeDates(might_be_dates(sample), Len(sample)) THEN col
          ELSE LET parsed_dates == to_datetime(col)
                   non_null_original == Cardinality({i \in 1..Len(col) : ~IsNa(col[i])})
                   non_null_parsed == Cardinality({i \in 1..Len(col) : ~IsNa(parsed_dates[i])})
               IN IF non_null_original > 0 /\ AcceptDates(non_null_parsed, non_null_original)
                    THEN parsed_dates
                  ELSE col

\* df is a sequence of columns
detect_and_parse_dates(df) == Returned([c \in 1..Len(df) |-> DateColumn(df[c])])

(***************************************************************************)
(* preprocess_df(df), preprocess.py lines 196-255.  A table is a record    *)
(* [rows, cols]: cols is the sequence of its columns, each a sequence of   *)
(* rows cells.  Column names are not part of this model of the table.      *)
(***************************************************************************)
Table(rows, cols) == [rows |-> rows, cols |-> cols]

NCols(df) == Len(df.cols)

\* DataFrame.empty: an axis of length 0
IsEmpty(df) == df.rows = 0 \/ NCols(df) = 0

\* line 235: re.search(r'[\d₪$€£¥%,.\-+()]', val_str)
NumericIndicators == Digits \cup {"$", "%", ",", ".", "-", "+", "(", ")"}

LooksNumeric(c) == \E i \in 1..Len(Strip(AsStr(c))) : Strip(AsStr(c))[i] \in NumericIndicators

\* line 229: .head(20)
NumericSampleSize == 20

\* line 239: numeric_looking / len(sample_vals) > 0.4
NumericSamplePct == 40

\* lines 226-244 for one column (after the date step)
NumericColumn(col) ==
  IF DType(col) # "object" THEN Returned(col)
  ELSE LET sample_vals == FirstN(DropNa(col), NumericSampleSize)
           numeric_looking == Cardinality({i \in 1..Len(sample_vals) : LooksNumeric(sample_vals[i])})
       IN IF Len(sample_vals) > 0 /\ 100 * numeric_looking > NumericSamplePct * Len(sample_vals)
            THEN coerce_numeric(col)
          ELSE Returned(col)

\* lines 248-249: dropna(how='all'), then the columns with no value
KeptRows(cols, rows) == {r \in 1..rows : \E c \in 1..Len(cols) : ~IsNa(cols[c][r])}

RECURSIVE SelectRows(_, _, _)
SelectRows(col, keep, r) ==
  IF r > Len(col) THEN <<>>
  ELSE (IF r \in keep THEN <<col[r]>> ELSE <<>>) \o SelectRows(col, keep, r + 1)

DropEmpty(cols, rows) ==
  LET keep == KeptRows(cols, rows)
      kept == [c \in 1..Len(cols) |-> SelectRows(cols[c], keep, 1)]
  IN Table(Cardinality(keep),
           SelectSeq(kept, LAMBDA col : \E r \in 1..Len(col) : ~IsNa(col[r])))

\* step 4, given what coerce_numeric gave for each column
DropStep(df, res) ==
  IF \E c \in 1..NCols(df) : res[c].exc # "none"
    THEN [exc |-> "ValueError", df |-> df]
  ELSE [exc |-> "none", df |-> DropEmpty([c \in 1..NCols(df) |-> res[c].col], df.rows)]

\* step 3, given what detect_and_parse_dates gave
NumericStep(df, dated) ==
  IF dated.exc # "none" THEN [exc |-> dated.exc, df |-> df]
  ELSE DropStep(df, [c \in 1..NCols(df) |-> NumericColumn(dated.col[c])])

preprocess_df(df) ==
  IF IsEmpty(df) THEN [exc |-> "none", df |-> df]
  ELSE NumericStep(df, detect_and_parse_dates(df.cols))

\* what the sections read of a table
NumericCols(df) == {c \in 1..NCols(df) : DType(df.cols[c]) = "float64"}
ObjectCols(df) == {c \in 1..NCols(df) : DType(df.cols[c]) = "object"}
TotalMissing(df) == Cardinality({<<c, r>> \in (1..NCols(df)) \X (1..df.rows) : IsNa(df.cols[c][r])})
MissingCols(df) == {c \in 1..NCols(df) : \E r \in 1..df.rows : IsNa(df.cols[c][r])}
NUnique(col) == Cardinality({col[r] : r \in {x \in 1..Len(col) : ~IsNa(col[x])}})
Min(a, b) == IF a < b THEN a ELSE b

(***************************************************************************)
(* Font resolution, pdf_report.py lines 53-264, and setup_hebrew_support,  *)
(* lines 300-337.  A path is <<directory, weight>>, <<None>> stands for    *)
(* None.  The environment env holds the files that exist, the two          *)
(* environment variables, the first download directory that is writable    *)
(* and, for each weight, whether its download succeeds.                    *)
(***************************************************************************)
None == "None"

NoFonts == <<<<None>>, <<None>>>>

FontPaths == {"assets", "custom", "system", "tmp"} \X {"Regular", "Bold"}

\* os.path.exists that holds for every path
ExistsAlways(files, path) == TRUE

\* os.path.exists(path)
Exists(files, path) == path \in files

\* lines 105-106, 119-120: path if os.path.exists(path) else None
IfExists(files, path) == IF path # <<None>> /\ Exists(files, path) THEN path ELSE <<None>>

\* lines 98-111
_check_repository_fonts(env) ==
  <<IfExists(env.files, <<"assets", "Regular">>), IfExists(env.files, <<"assets", "Bold">>)>>

\* lines 113-125
_check_environment_fonts(env) ==
  <<IfExists(env.files, env.REPORT_FONT_REGULAR), IfExists(env.files, env.REPORT_FONT_BOLD)>>

\* lines 127-194: the first existing path of each weight
_scan_system_fonts(env) ==
  <<IfExists(env.files, <<"system", "Regular">>), IfExists(env.files, <<"system", "Bold">>)>>

\* lines 234-255 for one weight: the path when the file is there or has been
\* downloaded and written
Downloaded(env, weight) ==
  IF Exists(env.files, <<env.writable, weight>>) \/ env.http[weight] THEN <<env.writable, weight>>
  ELSE <<None>>

\* line 245: requests.get(url, timeout=30)
DownloadTimeout == 30

Request(weight) == [weight |-> weight, timeout |-> DownloadTimeout]

\* a loop that asks a second time for a weight whose request failed
RequestedWithRetry(env, weights) ==
  LET missing == SelectSeq(weights, LAMBDA w : ~Exists(env.files, <<env.writable, w>>))
      failed == SelectSeq(missing, LAMBDA w : ~env.http[w])
  IN [n \in 1..Len(missing) |-> Request(missing[n])] \o [n \in 1..Len(failed) |-> Request(failed[n])]

\* lines 234-255: the requests the loop over font_urls makes, in order: one for
\* each weight whose file is not there, whether or not the one before failed
Requested(env, weights) ==
  LET missing == SelectSeq(weights, LAMBDA w : ~Exists(env.files, <<env.writable, w>>))
  IN [n \in 1..Len(missing) |-> Request(missing[n])]

\* lines 196-264: the pair, the files that exist afterwards, the requests made
_download_noto_fonts(env) ==
  IF env.writable = None THEN [pair |-> NoFonts, files |-> env.files, requests |-> <<>>]
  ELSE [pair |-> <<Downloaded(env, "Regular"), Downloaded(env, "Bold")>>,
        files |-> env.files \cup ({Downloaded(env, "Regular"), Downloaded(env, "Bold")} \ {<<None>>}),
        requests |-> Requested(env, <<"Regular", "Bold">>)]

\* line 69: repo_fonts[0] and repo_fonts[1]
Both(pair) == pair[1] # <<None>> /\ pair[2] # <<None>>

\* what a call of resolve_hebrew_fonts did: the pair returned, the tiers it
\* tried in order, the files that exist when it returns, the requests it made
Resolution(pair, tried, files, requests) ==
  [pair |-> pair, tried |-> tried, files |-> files, requests |-> requests]

\* lines 85-92, tried being the tiers that have failed
FromDownload(env, tried) ==
  Resolution(IF Both(_download_noto_fonts(env).pair) THEN _download_noto_fonts(env).pair ELSE NoFonts,
             Append(tried, "download"), _download_noto_fonts(env).files,
             _download_noto_fonts(env).requests)

\* a resolver that downloads without scanning the system directories first
DownloadBeforeSystem(env, tried) ==
  FromDownload(env, tried)

\* lines 79-92
FromSystem(env, tried) ==
  IF Both(_scan_system_fonts(env))
    THEN Resolution(_scan_system_fonts(env), Append(tried, "system"), env.files, <<>>)
  ELSE FromDownload(env, Append(tried, "system"))

\* lines 73-92
FromEnvironment(env, tried) ==
  IF Both(_check_environment_fonts(env))
    THEN Resolution(_check_environment_fonts(env), Append(tried, "env"), env.files, <<>>)
  ELSE FromSystem(env, Append(tried, "env"))

\* lines 53-96
resolve_hebrew_fonts(env) ==
  IF Both(_check_repository_fonts(env))
    THEN Resolution(_check_repository_fonts(env), <<"assets">>, env.files, <<>>)
  ELSE FromEnvironment(env, <<"assets">>)

FontEnvs ==
  [files : SUBSET FontPaths,
   REPORT_FONT_REGULAR : {<<None>>, <<"custom", "Regular">>},
   REPORT_FONT_BOLD : {<<None>>, <<"custom", "Bold">>},
   writable : {None, "assets", "tmp"},
   http : [{"Regular", "Bold"} -> BOOLEAN]]

\* lines 309-325: the fonts registered for the family 'Hebrew' ('' and 'B'),
\* NoFonts when the core font is selected instead
RegisteredFonts(pair) ==
  IF pair[1] # <<None>>
    THEN <<pair[1], IF pair[2] # <<None>> THEN pair[2] ELSE pair[1]>>
  ELSE NoFonts

(***************************************************************************)
(* The statistics the sections branch on, computed over integers: the     *)
(* values of a column are scaled to a common power of ten, which none of   *)
(* the comparisons depends on.                                             *)
(***************************************************************************)
MaxOf(S) == CHOOSE x \in S : \A y \in S : y <= x

\* the non-missing numbers of a numeric column, as integers
Scaled(col) ==
  LET vals == DropNa(col)
      E == MaxOf({0} \cup {vals[i].e : i \in 1..Len(vals)})
  IN [i \in 1..Len(vals) |-> vals[i].m * Pow10(E - vals[i].e)]

RECURSIVE Sum(_)
Sum(xs) == IF xs = <<>> THEN 0 ELSE xs[1] + Sum(Tail(xs))

\* Series.skew(): abs(skewness) > 1, NaN (never greater) under 3 values or
\* with no spread
Skewed(col) ==
  LET xs == Scaled(col)
      n == Len(xs)
      d == [i \in 1..n |-> n * xs[i] - Sum(xs)]
      d2 == Sum([i \in 1..n |-> d[i] * d[i]])
      d3 == Sum([i \in 1..n |-> d[i] * d[i] * d[i]])
  IN n >= 3 /\ d2 > 0 /\ n * n * (n - 1) * d3 * d3 > (n - 2) * (n - 2) * d2 * d2 * d2

\* four times Series.quantile(k / 4), linear interpolation
Quantile4(xs, k) ==
  LET sorted == SortSeq(xs, LAMBDA a, b : a < b)
      pos == (Len(xs) - 1) * k
      lo == pos \div 4 + 1
      frac == pos % 4
  IN IF frac = 0 THEN 4 * sorted[lo]
     ELSE 4 * sorted[lo] + frac * (sorted[lo + 1] - sorted[lo])

\* the values below Q1 - 1.5 IQR or above Q3 + 1.5 IQR
OutlierCount(col) ==
  LET xs == Scaled(col)
      q1 == Quantile4(xs, 1)
      q3 == Quantile4(xs, 3)
      lower8 == 2 * q1 - 3 * (q3 - q1)
      upper8 == 2 * q3 + 3 * (q3 - q1)
  IN IF xs = <<>> THEN 0
     ELSE Cardinality({i \in 1..Len(xs) : 8 * xs[i] < lower8 \/ 8 * xs[i] > upper8})

\* DataFrame.corr() for two columns: abs(r) > num / 10, NaN (never greater)
\* under 2 common rows or with no spread
CorrAbove(a, b, num) ==
  LET rows == {r \in 1..Len(a) : ~IsNa(a[r]) /\ ~IsNa(b[r])}
      E == MaxOf({0} \cup {a[r].e : r \in rows} \cup {b[r].e : r \in rows})
      pick == SelectSeq([r \in 1..Len(a) |-> r], LAMBDA r : r \in rows)
      n == Len(pick)
      xs == [i \in 1..n |-> a[pick[i]].m * Pow10(E - a[pick[i]].e)]
      ys == [i \in 1..n |-> b[pick[i]].m * Pow10(E - b[pick[i]].e)]
      dx == [i \in 1..n |-> n * xs[i] - Sum(xs)]
      dy == [i \in 1..n |-> n * ys[i] - Sum(ys)]
      sxy == Sum([i \in 1..n |-> dx[i] * dy[i]])
      sxx == Sum([i \in 1..n |-> dx[i] * dx[i]])
      syy == Sum([i \in 1..n |-> dy[i] * dy[i]])
  IN n >= 2 /\ sxx > 0 /\ syy > 0 /\ 100 * sxy * sxy > num * num * sxx * syy

\* DataFrame.duplicated().sum(): the rows equal to an earlier row (a missing
\* value equals a missing value)
RowKey(df, r) == [c \in 1..NCols(df) |-> IF IsNa(df.cols[c][r]) THEN NaN ELSE df.cols[c][r]]

DuplicateRows(df) == df.rows - Cardinality({RowKey(df, r) : r \in 1..df.rows})

(***************************************************************************)
(* The page layout of HebrewPDFReport, pdf_report.py lines 369-478 and     *)
(* 1407-1429.  A layout is [doc, pages, y]: doc is what has been drawn, in *)
(* order, pages the number of add_page() calls, y the cursor current_y in  *)
(* tenths of a millimetre.  hebrew says whether the family 'Hebrew' is     *)
(* registered: FPDF.set_font raises for a family that is not.              *)
(***************************************************************************)
page_height == 297
margin == 20

Item(kind, key, lay) == [kind |-> kind, key |-> key, page |-> lay.pages, y |-> lay.y]

NewPage(lay) == [lay EXCEPT !.pages = @ + 1, !.y = 10 * (margin + 10)]

BlankLayout == [doc |-> <<>>, pages |-> 0, y |-> 0]

create_title_page(lay, hebrew) ==
  LET paged == [lay EXCEPT !.pages = @ + 1]
  IN IF ~hebrew THEN paged                       \* line 380 raises, line 412 logs
     ELSE [paged EXCEPT !.doc = @ \o << Item("cover", "report_title", [paged EXCEPT !.y = 800]),
                                        Item("cover", "report_subtitle", [paged EXCEPT !.y = 1000]),
                                        Item("cover", "company", [paged EXCEPT !.y = 1200]),
                                        Item("cover", "report_date", [paged EXCEPT !.y = 1400]),
                                        Item("cover", "page_info", [paged EXCEPT !.y = 2600]) >>,
                        !.y = 1800]

\* level 1 only: every caller passes 1
add_section_header(lay, hebrew, title) ==
  LET paged == IF lay.y > 10 * (page_height - 50) THEN NewPage(lay) ELSE lay
      spaced == [paged EXCEPT !.y = @ + 150]
  IN IF ~hebrew THEN spaced                      \* line 426 raises, line 448 logs
     ELSE [spaced EXCEPT !.doc = Append(@, Item("title", title, spaced)), !.y = @ + 150]

\* a text that wraps to one line
add_text(lay, hebrew, text, font_size) ==
  IF ~hebrew THEN lay                            \* line 457/459 raises, line 477 logs
  ELSE LET paged == IF lay.y > 10 * (page_height - 30) THEN NewPage(lay) ELSE lay
       IN [paged EXCEPT !.doc = Append(@, Item("text", text, paged)),
                        !.y = @ + (font_size * 4 + 20) + 30]

\* lines 451-478 for a text that _wrap_text_rtl wraps to nlines lines: the
\* page is tested once, before the loop over the lines
add_text_lines(lay, hebrew, text, font_size, nlines) ==
  IF ~hebrew THEN lay                            \* line 457/459 raises, line 477 logs
  ELSE LET paged == IF lay.y > 10 * (page_height - 30) THEN NewPage(lay) ELSE lay
       IN [paged EXCEPT !.doc = @ \o [k \in 1..nlines |->
                                        Item("text", text, [paged EXCEPT !.y = @ + (k - 1) * (font_size * 4 + 20)])],
                        !.y = @ + nlines * (font_size * 4 + 20) + 30]

\* an add_chart without the test of lines 1415-1417
add_chart_unchecked(lay, chart) ==
  [lay EXCEPT !.doc = Append(@, Item("image", chart, lay)), !.y = @ + 1100]

\* the chart file exists
add_chart(lay, chart) ==
  LET paged == IF lay.y > 10 * (page_height - 120) THEN NewPage(lay) ELSE lay
  IN [paged EXCEPT !.doc = Append(@, Item("image", chart, paged)), !.y = @ + 1100]

(***************************************************************************)
(* A section is a program: the calls it makes in order.  H is a section    *)
(* header, T a text, I a chart, and R marks the statements between two     *)
(* calls that compute on the table and can raise.                          *)
(***************************************************************************)
H(title) == [op |-> "H", key |-> title, size |-> 18]
T(text, font_size) == [op |-> "T", key |-> text, size |-> font_size]
I(chart) == [op |-> "I", key |-> chart, size |-> 0]
R == [op |-> "R", key |-> "", size |-> 0]

Rep(n, op) == [i \in 1..n |-> op]

RECURSIVE Exec(_, _, _)
Exec(ops, lay, hebrew) ==
  IF ops = <<>> THEN lay
  ELSE Exec(Tail(ops),
            CASE ops[1].op = "H" -> add_section_header(lay, hebrew, ops[1].key)
              [] ops[1].op = "T" -> add_text(lay, hebrew, ops[1].key, ops[1].size)
              [] ops[1].op = "I" -> add_chart(lay, ops[1].key)
              [] OTHER -> lay,
            hebrew)

\* the number of places a program can raise at
NumR(ops) == Cardinality({i \in 1..Len(ops) : ops[i] = R})

\* the calls made before the f-th R
RECURSIVE Cut(_, _)
Cut(ops, f) ==
  IF ops = <<>> THEN <<>>
  ELSE IF ops[1] = R THEN (IF f = 1 THEN <<>> ELSE Cut(Tail(ops), f - 1))
  ELSE <<ops[1]>> \o Cut(Tail(ops), f)

\* the columns of a set, in table order
InOrder(df, S) == SelectSeq([c \in 1..NCols(df) |-> c], LAMBDA c : c \in S)

RECURSIVE Concat(_)
Concat(seqs) == IF seqs = <<>> THEN <<>> ELSE seqs[1] \o Concat(Tail(seqs))

(***************************************************************************)
(* The seven guaranteed sections, pdf_report.py lines 807-1211: the        *)
(* program of the try block of each, and of its except block.              *)
(***************************************************************************)
Stages == <<"data_preview", "missing_values", "categorical", "numeric",
            "stats_summary", "outliers", "recommendations">>

StageTitle(stage) ==
  CASE stage = "data_preview" -> "data_preview_title"
    [] stage = "missing_values" -> "missing_values_title"
    [] stage = "categorical" -> "categorical_title"
    [] stage = "numeric" -> "numeric_title"
    [] stage = "stats_summary" -> "stats_summary_title"
    [] stage = "outliers" -> "outliers_title"
    [] stage = "recommendations" -> "recommendations_title"

\* the lines of df.head(5).iloc[:, :5].to_string()
PreviewLines(df) == IF IsEmpty(df) THEN 3 ELSE 1 + Min(5, df.rows)

add_data_preview_section(df) ==
  << H("data_preview_title"), R, T("data_shape", 12), R, T("memory_usage", 12),
     T("data_preview_description", 12), R >>
  \o Rep(Min(10, PreviewLines(df)), T("preview_line", 10))
  \o (IF PreviewLines(df) > 10 THEN <<T("...", 10)>> ELSE <<>>)

add_missing_values_section(df) ==
  << H("missing_values_title"), R >>
  \o IF TotalMissing(df) = 0 THEN <<T("no_missing_values", 12)>>
     ELSE << T("missing_values_found", 12), R >>
          \o Rep(Cardinality(MissingCols(df)), T("missing_column", 11))
          \o << T("total_missing", 12), T("Missing Values Visualization:", 11) >>
          \o Rep(Min(5, Cardinality(MissingCols(df))), T("missing_bar", 9))

CategoricalCols(df) ==
  InOrder(df, ObjectCols(df))
  \o InOrder(df, {c \in NumericCols(df) : NUnique(df.cols[c]) <= 10 /\ NUnique(df.cols[c]) > 1})

CategoricalColumn(col) ==
  << T("column", 12), T("unique_values", 11), T("top_values", 11) >>
  \o Rep(Min(10, NUnique(col)), T("value_count", 10))
  \o (IF NUnique(col) > 10 THEN <<T("other_values", 10)>> ELSE <<>>)

add_categorical_distributions_section(df) ==
  << H("categorical_title"), R >>
  \o IF CategoricalCols(df) = <<>> THEN <<T("no_categorical_data", 12)>>
     ELSE <<T("categorical_description", 12)>>
          \o Concat([i \in 1..Min(5, Len(CategoricalCols(df))) |->
                       CategoricalColumn(df.cols[CategoricalCols(df)[i]])])

NumericColumnStats(col) ==
  <<T("column", 12)>>
  \o IF DropNa(col) = <<>> THEN <<T("No valid numeric data in this column", 11)>>
     ELSE <<T("statistics", 11)>> \o Rep(7, T("statistic", 10))
          \o (IF Skewed(col) THEN <<T("skewness", 10)>> ELSE <<>>)

add_numeric_distributions_section(df) ==
  << H("numeric_title"), R >>
  \o IF NumericCols(df) = {} THEN <<T("no_numeric_data", 12)>>
     ELSE <<T("numeric_description", 12)>>
          \o Concat([i \in 1..Min(5, Cardinality(NumericCols(df))) |->
                       NumericColumnStats(df.cols[InOrder(df, NumericCols(df))[i]])])

\* df[numeric_cols].describe().round(2).to_string(): a header and 8 rows
DescribeLines == 9

add_statistical_summary_section(df) ==
  << H("stats_summary_title"), T("data_types_summary", 12), R,
     T("numeric_columns", 11), T("categorical_columns", 11), T("datetime_columns", 11), R >>
  \o IF NumericCols(df) # {}
       THEN <<T("stats_summary_description", 12)>> \o Rep(Min(15, DescribeLines), T("describe_line", 9))
     ELSE <<T("No numeric columns available for statistical summary", 11)>>

\* lines 1157-1185: the columns with at least 4 values and an outlier
OutlierCols(df) ==
  InOrder(df, {c \in NumericCols(df) :
                 Len(DropNa(df.cols[c])) >= 4 /\ OutlierCount(df.cols[c]) > 0})

OutlierColumn(col) ==
  << T("outlier_column", 11), T("outliers_count", 10), T("outlier_range", 10) >>
  \o (IF 100 * OutlierCount(col) > 10 * Len(DropNa(col)) THEN <<T("outlier_warning", 10)>> ELSE <<>>)

add_outliers_section(df) ==
  << H("outliers_title"), T("outliers_description", 12), R >>
  \o IF NumericCols(df) = {}
       THEN <<T("No numeric columns available for outlier detection", 11)>>
     ELSE IF OutlierCols(df) = <<>> THEN <<T("no_outliers_found", 12)>>
     ELSE <<T("outliers_found", 12)>>
          \o Concat([i \in 1..Min(10, Len(OutlierCols(df))) |-> OutlierColumn(df.cols[OutlierCols(df)[i]])])

\* lines 812-887: the recommendations drawn before the five general ones
SpecificRecommendations(analysis, df) ==
  LET cells == df.rows * NCols(df)
      nums == InOrder(df, NumericCols(df))
      pairs == {<<i, j>> \in (1..Len(nums)) \X (1..Len(nums)) : i < j}
      corr(n) == \E p \in pairs : CorrAbove(df.cols[nums[p[1]]], df.cols[nums[p[2]]], n)
      outl == {c \in NumericCols(df) : OutlierCount(df.cols[c]) > 0}
  IN IF analysis = "empty" THEN <<"small_dataset">>
     ELSE (IF 100 * TotalMissing(df) > 30 * cells THEN <<"high_missing_data">>
           ELSE IF 100 * TotalMissing(df) > 10 * cells THEN <<"medium_missing_data">>
           ELSE IF TotalMissing(df) > 0 THEN <<"low_missing_data">>
           ELSE <<>>)
       \o (IF DuplicateRows(df) = 0 THEN <<>>
           ELSE IF 100 * DuplicateRows(df) > 5 * df.rows THEN <<"duplicate_rows_high">>
           ELSE <<"duplicate_rows_low">>)
       \o (IF Len(nums) > 1 /\ corr(9) THEN <<"high_correlations">>
           ELSE IF Len(nums) > 1 /\ corr(5) THEN <<"medium_correlations">>
           ELSE <<>>)
       \o (IF outl = {} THEN <<>>
           ELSE IF \E c \in outl : 100 * OutlierCount(df.cols[c]) > 5 * df.rows
             THEN <<"high_outliers">>
           ELSE <<"low_outliers">>)
       \o (IF df.rows < 100 THEN <<"small_dataset">>
           ELSE IF df.rows > 1000000 THEN <<"large_dataset">>
           ELSE <<>>)
       \o (IF NCols(df) > 50 THEN <<"many_columns">> ELSE <<>>)

general_recommendations ==
  <<"check_data_quality", "backup_original", "document_changes",
    "validate_assumptions", "use_visualizations">>

add_recommendations_section(analysis, df) ==
  LET recommendations == SpecificRecommendations(analysis, df) \o general_recommendations
  IN << H("recommendations_title"), R >>
     \o [i \in 1..Len(recommendations) |-> T(recommendations[i], 11)]

Primary(stage, analysis, df) ==
  CASE stage = "data_preview" -> add_data_preview_section(df)
    [] stage = "missing_values" -> add_missing_values_section(df)
    [] stage = "categorical" -> add_categorical_distributions_section(df)
    [] stage = "numeric" -> add_numeric_distributions_section(df)
    [] stage = "stats_summary" -> add_statistical_summary_section(df)
    [] stage = "outliers" -> add_outliers_section(df)
    [] stage = "recommendations" -> add_recommendations_section(analysis, df)

\* the except block of a section: add_recommendations_section only logs
Fallback(stage) ==
  IF stage = "recommendations" THEN <<>>
  ELSE << H(StageTitle(stage)), T("error_processing", 12) >>

\* A section function that lets what it raises reach its caller.
SectionCatchesAllButOutliers(stage) == stage # "outliers"

\* every section function catches what its try block raises
SectionCatches(stage) == TRUE

\* the calls a section makes when its try block raises at its f-th R (f = 0:
\* it does not raise)
SectionCalls(stage, primary, f) ==
  IF f = 0 THEN Cut(primary, 0) ELSE Cut(primary, f) \o Fallback(stage)

\* lines 1251-1253: what add_guaranteed_sections draws when a section raises
OrchestratorFallback ==
  << H("Error in Report Generation"),
     T("Some sections could not be generated due to data processing errors.", 12) >>

\* lines 1471-1484
table_of_contents == <<H("table_of_contents")>> \o Rep(8, T("toc_item", 12))

\* lines 1288-1367: the chart files, in the order they are made
create_visualizations(df) ==
  (IF Cardinality(NumericCols(df)) > 1 THEN <<"correlation_heatmap.png">> ELSE <<>>)
  \o (IF TotalMissing(df) > 0 THEN <<"missing_values.png">> ELSE <<>>)
  \o (IF NumericCols(df) # {} THEN <<"distributions.png">> ELSE <<>>)
  \o LET first3 == FirstN(InOrder(df, ObjectCols(df)), 3)
         charted == SelectSeq(first3, LAMBDA c : NUnique(df.cols[c]) <= 20)
     IN [i \in 1..Len(charted) |-> "top_categories.png"]

\* lines 1494-1501
ChartCalls(chart_files) ==
  IF chart_files = <<>>
    THEN << H("charts_visualizations"), T("Charts could not be generated for this dataset", 12) >>
  ELSE <<H("charts_section")>>
       \o Concat([i \in 1..Len(chart_files) |-> << T("chart_description", 12), I(chart_files[i]) >>])

(***************************************************************************)
(* normalize_column_name(name), preprocess.py lines 17-35.  A character    *)
(* outside ASCII is written by its code point.  The patterns are str       *)
(* patterns, so \w is the Unicode class of word characters and \s the      *)
(* Unicode class of whitespace.                                            *)
(***************************************************************************)
AsciiWordChars == {"a", "1", "_"}

\* U+00E9 is a Latin letter with an accent: a word character outside ASCII
OtherWordChars == {"U+00E9"}

\* U+05D0 is the letter alef, U+05BE the punctuation mark maqaf
HebrewBlock == {"U+05D0", "U+05BE"}

Whitespace == {" "}

\* \w of the re module for a str pattern
IsWordChar(c) == c \in AsciiWordChars \cup OtherWordChars \cup {"U+05D0"}

IntLabel(n) == [k |-> "int", v |-> n]

\* lines 19-20: str(name) of a label that is no str
LabelStr(name) == IF name.k = "str" THEN name.s ELSE NatToStr(name.v)

\* line 26: re.sub(r'[^\w\s\u0590-\u05FF]', '_', name)
ReplaceProblematic(s) ==
  [i \in 1..Len(s) |->
     IF IsWordChar(s[i]) \/ s[i] \in Whitespace \/ s[i] \in HebrewBlock THEN s[i] ELSE "_"]

RECURSIVE SkipRun(_, _)
\* s without its leading characters of class
SkipRun(s, class) == IF s # <<>> /\ s[1] \in class THEN SkipRun(Tail(s), class) ELSE s

RECURSIVE SubRuns(_, _)
\* lines 27-28: re.sub(r'<class>+', '_', s)
SubRuns(s, class) ==
  IF s = <<>> THEN <<>>
  ELSE IF s[1] \in class THEN <<"_">> \o SubRuns(SkipRun(s, class), class)
  ELSE <<s[1]>> \o SubRuns(Tail(s), class)

RECURSIVE RSkipRun(_, _)
RSkipRun(s, class) ==
  IF s # <<>> /\ s[Len(s)] \in class THEN RSkipRun(SubSeq(s, 1, Len(s) - 1), class) ELSE s

\* line 29: name.strip('_')
StripChars(s, class) == RSkipRun(SkipRun(s, class), class)

\* the default that is dropped
DefaultNameEmpty(name) == name

\* lines 32-33
DefaultName(name) == IF name = <<>> THEN <<"c", "o", "l", "u", "m", "n">> ELSE name

normalize_column_name(name) ==
  DefaultName(StripChars(SubRuns(SubRuns(ReplaceProblematic(Strip(LabelStr(name))), Whitespace), {"_"}), {"_"}))

(***************************************************************************)
(* preprocess_df(df) on a table with its column labels, preprocess.py      *)
(* lines 196-255, over a store of DataFrame objects: heap[id] is the       *)
(* content [names, rows, cols] of the object id, so that a write through   *)
(* one reference is seen through every reference to the same object.       *)
(***************************************************************************)
NamedTable(names, rows, cols) == [names |-> names, rows |-> rows, cols |-> cols]

\* DataFrame.copy() shared with its source
CopyShared(heap, id) == [heap |-> heap, id |-> id]

\* lines 144 and 208: DataFrame.copy(), a new object with the same content
Copy(heap, id) == [heap |-> Append(heap, heap[id]), id |-> Len(heap) + 1]

\* line 213: result_df.columns = [...]
SetNames(heap, id, names) == [heap EXCEPT ![id].names = names]

\* lines 185 and 241: df[col] = ..., for every column
SetCols(heap, id, cols) == [heap EXCEPT ![id].cols = cols]

\* df[col] is a DataFrame, which has no dtype, when the label col is not unique
HasDuplicates(names) == \E i, j \in 1..Len(names) : i < j /\ names[i] = names[j]

PrepResult(exc, heap, ret) == [exc |-> exc, heap |-> heap, ret |-> ret]

\* lines 248-249: dropna(how='all') and .loc[:, notna().any()] give new objects
DropEmptyNamed(t) ==
  LET keep == KeptRows(t.cols, t.rows)
      kept == [c \in 1..Len(t.cols) |-> SelectRows(t.cols[c], keep, 1)]
      keepCols == {c \in 1..Len(kept) : \E r \in 1..Len(kept[c]) : ~IsNa(kept[c][r])}
  IN NamedTable(SelectRows(t.names, keepCols, 1), Cardinality(keep), SelectRows(kept, keepCols, 1))

\* lines 246-255
PrepDrop(heap, id) == PrepResult("none", Append(heap, DropEmptyNamed(heap[id])), Len(heap) + 1)

\* lines 226-244, given what coerce_numeric gave for each column
PrepAssign(heap, id, res) ==
  IF \E c \in 1..Len(res) : res[c].exc # "none" THEN PrepResult("ValueError", heap, 0)
  ELSE PrepDrop(SetCols(heap, id, [c \in 1..Len(res) |-> res[c].col]), id)

PrepNumeric(heap, id) ==
  PrepAssign(heap, id, [c \in 1..Len(heap[id].cols) |-> NumericColumn(heap[id].cols[c])])

\* lines 144-193 with the copy made: line 147 raises AttributeError on a label
\* that is not unique; the converted columns are written to the copy
ParseDatesInto(copied, df) ==
  IF HasDuplicates(copied.heap[df].names) THEN PrepResult("AttributeError", copied.heap, 0)
  ELSE PrepNumeric(SetCols(copied.heap, copied.id, detect_and_parse_dates(copied.heap[df].cols).col),
                   copied.id)

NormalizedNames(names) == [c \in 1..Len(names) |-> Str(normalize_column_name(names[c]))]

\* lines 210-222: the labels of the copy are replaced, then the dates are parsed
PrepRename(copied) ==
  ParseDatesInto(Copy(SetNames(copied.heap, copied.id, NormalizedNames(copied.heap[copied.id].names)),
                      copied.id),
                 copied.id)

\* preprocess_df(df) for the object df of the store
preprocess_df_in(heap, df) ==
  IF IsEmpty(heap[df]) THEN PrepResult("none", heap, df)
  ELSE PrepRename(Copy(heap, df))

(***************************************************************************)
(* _wrap_text_rtl(text, max_width), pdf_report.py lines 480-503, with      *)
(* _get_text_width, lines 339-344, and _fix_hebrew_text, lines 266-282.    *)
(* Widths are in units of the current font: FPDF.get_string_width adds the *)
(* advance widths of the characters.                                       *)
(***************************************************************************)
CharWidth(c) ==
  CASE c = "W" -> 5
    [] c = "U+05D0" -> 2
    [] OTHER -> 1

\* lines 339-344
_get_text_width(text) == Sum([i \in 1..Len(text) |-> CharWidth(text[i])])

Reverse(s) == [i \in 1..Len(s) |-> s[Len(s) + 1 - i]]

RECURSIVE RunLen(_, _)
\* the length of the run of characters of class that s starts with
RunLen(s, class) == IF s # <<>> /\ s[1] \in class THEN 1 + RunLen(Tail(s), class) ELSE 0

RECURSIVE ReverseRuns(_, _)
\* s with every maximal run of characters of class reversed
ReverseRuns(s, class) ==
  IF s = <<>> THEN <<>>
  ELSE IF s[1] \in class
    THEN Reverse(SubSeq(s, 1, RunLen(s, class))) \o ReverseRuns(SubSeq(s, RunLen(s, class) + 1, Len(s)), class)
  ELSE <<s[1]>> \o ReverseRuns(Tail(s), class)

LatinChars == {"a", "W"}

IsHebrew(c) == c = "U+05D0" \/ c = "U+05BE"

IsStrong(c) == c \in LatinChars \/ IsHebrew(c)

\* the first character of s that has a direction, " " when there is none
FirstStrong(s) ==
  IF \E i \in 1..Len(s) : IsStrong(s[i])
    THEN s[CHOOSE i \in 1..Len(s) : IsStrong(s[i]) /\ \A j \in 1..(i - 1) : ~IsStrong(s[j])]
  ELSE " "

\* bidi.algorithm.get_display: the characters in visual order.  In a
\* right-to-left paragraph the line is mirrored and the Latin runs keep their
\* reading order; in a left-to-right one the Hebrew runs are mirrored.
get_display(s) ==
  IF IsHebrew(FirstStrong(s)) THEN ReverseRuns(Reverse(s), LatinChars)
  ELSE ReverseRuns(s, {"U+05D0", "U+05BE"})

\* lines 266-282; arabic_reshaper.reshape leaves Hebrew and Latin characters as they are
_fix_hebrew_text(text) ==
  IF text = <<>> THEN <<>>
  ELSE IF \E i \in 1..Len(text) : IsHebrew(text[i]) THEN get_display(text)
  ELSE text

RECURSIVE Split(_)
\* line 483: text.split()
Split(text) ==
  IF SkipRun(text, Whitespace) = <<>> THEN <<>>
  ELSE LET rest == SkipRun(text, Whitespace)
           n == RunLen(rest, {c \in {rest[i] : i \in 1..Len(rest)} : c \notin Whitespace})
       IN <<SubSeq(rest, 1, n)>> \o Split(SubSeq(rest, n + 1, Len(rest)))

\* the test of line 489 with one unit of slack
FitsLoosely(test_line, max_width) == _get_text_width(test_line) <= max_width + 1

\* line 489
Fits(test_line, max_width) == _get_text_width(test_line) <= max_width

\* a line built without the space between two words
TestLineGlued(current_line, word) == current_line \o word

\* line 488
TestLine(current_line, word) == IF current_line # <<>> THEN current_line \o <<" ">> \o word ELSE word

RECURSIVE WrapWords(_, _, _, _)
\* lines 487-498: the loop over the words, then the last line
WrapWords(words, lines, current_line, max_width) ==
  IF words = <<>> THEN (IF current_line # <<>> THEN Append(lines, current_line) ELSE lines)
  ELSE IF Fits(TestLine(current_line, words[1]), max_width)
    THEN WrapWords(Tail(words), lines, TestLine(current_line, words[1]), max_width)
  ELSE WrapWords(Tail(words), IF current_line # <<>> THEN Append(lines, current_line) ELSE lines,
                 words[1], max_width)

_wrap_text_rtl(text, max_width) == WrapWords(Split(text), <<>>, <<>>, max_width)

(***************************************************************************)
(* t(key, lang), i18n.py lines 191-225, with the two dictionaries of the   *)
(* module, lines 14-183.  A dictionary display is the sequence of its      *)
(* entries as they are written: the key, and whether a comma follows the   *)
(* value.  The text of key in a language is <<language, key>>.             *)
(***************************************************************************)
Entry(key, comma) == [key |-> key, comma |-> comma]

\* lines 14-173 (the entries of lines 16, 21, 150, 151, 154, 156, 172)
HEBREW_TEXTS ==
  << Entry("report_title", TRUE), Entry("data_preview", TRUE), Entry("data_quality_fair", TRUE),
     Entry("data_quality_poor", FALSE), Entry("error_no_data", TRUE), Entry("error_processing", TRUE),
     Entry("distribution", TRUE) >>

\* lines 176-183 (the entries of lines 177, 180, 181, 182)
ENGLISH_TEXTS ==
  << Entry("report_title", TRUE), Entry("no_missing_values", TRUE), Entry("error_no_data", TRUE),
     Entry("processing_complete", TRUE) >>

\* a value that is followed by the next key without a comma is a syntax error
Compiles(display) == \A n \in 1..(Len(display) - 1) : display[n].comma

\* import i18n
ModuleLoads == Compiles(HEBREW_TEXTS) /\ Compiles(ENGLISH_TEXTS)

Defines(display, key) == \E n \in 1..Len(display) : display[n].key = key

\* lines 186-188: os.getenv('REPORT_LANG', 'he')
get_default_language(REPORT_LANG) == IF REPORT_LANG = None THEN "he" ELSE REPORT_LANG

\* line 214: texts.get(key, fallback_texts.get(key, key)), lines 206-211 having
\* chosen the dictionaries
Lookup(lang, key) ==
  IF lang = "he"
    THEN (IF Defines(HEBREW_TEXTS, key) THEN <<"he", key>>
          ELSE IF Defines(ENGLISH_TEXTS, key) THEN <<"en", key>> ELSE <<key>>)
  ELSE (IF Defines(ENGLISH_TEXTS, key) THEN <<"en", key>>
        ELSE IF Defines(HEBREW_TEXTS, key) THEN <<"he", key>> ELSE <<key>>)

\* from i18n import t; t(key, lang)
t(key, lang, REPORT_LANG) ==
  IF ~ModuleLoads THEN Raised("SyntaxError")
  ELSE Returned(Lookup(IF lang = None THEN get_default_language(REPORT_LANG) ELSE lang, key))

(***************************************************************************)
(* State.                                                                  *)
(***************************************************************************)
VARIABLES
  series,      \* coerce_numeric: the column passed in
  coerced,     \* coerce_numeric: what the call gave, Pending before the call
  amount,      \* clean_numeric_value: the amount the input string writes
  valOut,      \* clean_numeric_value: what the call gave, Pending before the call
  dateCol,     \* detect_and_parse_dates: the one column of the table passed in
  dateOut,     \* detect_and_parse_dates: what the call gave, Pending before the call
  pc,          \* generate_complete_data_report: the step it is about to take
  table,       \* the table passed in
  processed,   \* processed_df
  analysis_results,  \* "computed", or "empty" for {}
  hebrew,      \* the family 'Hebrew' is registered in self.pdf
  pdf,         \* the layout: what is drawn, the pages, current_y
  attempted,   \* the section functions add_guaranteed_sections has called
  log,         \* what was logged at warning level or above
  outputs,     \* how each self.pdf.output(output_path) call ended
  fileExists,  \* os.path.exists(output_path)
  result,      \* what generate_complete_data_report returned
  colName,     \* normalize_column_name: the label passed in
  normalized,  \* normalize_column_name: what the call gave, Pending before the call
  renormalized,  \* normalize_column_name: what the call gave for the identifier it had returned
  rawTable,    \* preprocess_df: the content of the caller's table when it is passed in
  heap,        \* preprocess_df: the content of every DataFrame object, the caller's table first
  prepOut,     \* preprocess_df: the exception raised and the object returned, Pending before the call
  fontEnv,     \* resolve_hebrew_fonts: the files, variables and network it runs in
  fontOut,     \* resolve_hebrew_fonts: what the call did and gave, pending before the call
  wrapText,    \* _wrap_text_rtl: the text passed in
  wrapWidth,   \* _wrap_text_rtl: max_width
  wrapOut,     \* _wrap_text_rtl: the lines returned, Pending before the call
  running,     \* concurrent reports: for each call its table, step, self, chart_files and i
  objects,     \* concurrent reports: the HebrewPDFReport instances, [lay, hebrew] each
  chartsDir,   \* concurrent reports: for each file of the directory 'charts', the call that wrote it last
  outputFile,  \* concurrent reports: the call that wrote output_path last, 0 for none
  tKey,        \* t: key
  tLang,       \* t: lang, None when it is not passed
  tEnv,        \* t: the environment variable REPORT_LANG, None when it is not set
  tOut,        \* t: what the call gave, Pending before the call
  sepText,     \* clean_numeric_value: a string of digits and separators passed in
  sepOut,      \* clean_numeric_value: what the call gave for it, Pending before the call
  layFonts,    \* layout calls: the family 'Hebrew' is registered in the instance
  layState     \* layout calls: pages and current_y of the instance, and what its last call drew

reportVars == <<pc, table, processed, analysis_results, hebrew, pdf, attempted, log, outputs, fileExists, result>>

nameVars == <<colName, normalized, renormalized>>

prepVars == <<rawTable, heap, prepOut>>

fontVars == <<fontEnv, fontOut>>

wrapVars == <<wrapText, wrapWidth, wrapOut>>

concVars == <<running, objects, chartsDir, outputFile>>

langVars == <<tKey, tLang, tEnv, tOut>>

moreVars == <<nameVars, prepVars, fontVars, wrapVars, concVars, langVars>>

oldVars == <<series, coerced, amount, valOut, dateCol, dateOut, reportVars>>

sepVars == <<sepText, sepOut>>

layVars == <<layFonts, layState>>

lateVars == <<sepVars, layVars>>

vars == <<oldVars, moreVars, lateVars>>

Pending == [exc |-> "pending", col |-> <<>>]

NoAmount == [sign |-> "", cur |-> "", paren |-> FALSE, pct |-> FALSE, int |-> 0, grouped |-> FALSE, frac |-> <<>>]

NumIdle == series = <<>> /\ coerced = Pending
ValIdle == amount = NoAmount /\ valOut = Pending
DateIdle == dateCol = <<>> /\ dateOut = Pending

NoTable == [rows |-> 0, cols |-> <<>>]

NameIdle == colName = Str(<<>>) /\ normalized = Pending /\ renormalized = Pending

NoNamedTable == NamedTable(<<>>, 0, <<>>)

PrepPending == [exc |-> "pending", ret |-> 0]

PrepIdle == rawTable = NoNamedTable /\ heap = <<>> /\ prepOut = PrepPending

NoFontEnv ==
  [files |-> {}, REPORT_FONT_REGULAR |-> <<None>>, REPORT_FONT_BOLD |-> <<None>>, writable |-> None,
   http |-> [w \in {"Regular", "Bold"} |-> FALSE]]

FontPending == Resolution(NoFonts, <<>>, {}, <<>>)

FontIdle == fontEnv = NoFontEnv /\ fontOut = FontPending

WrapIdle == wrapText = <<>> /\ wrapWidth = 0 /\ wrapOut = Pending

ConcIdle == running = <<>> /\ objects = <<>> /\ chartsDir = <<>> /\ outputFile = 0

LangIdle == tKey = "" /\ tLang = None /\ tEnv = None /\ tOut = Pending

MoreIdle == NameIdle /\ PrepIdle /\ FontIdle /\ WrapIdle /\ ConcIdle /\ LangIdle

SepIdle == sepText = <<>> /\ sepOut = Pending

LayIdle == layFonts = FALSE /\ layState = BlankLayout

LateIdle == SepIdle /\ LayIdle

ReportIdle ==
  /\ pc = "idle" /\ table = NoTable /\ processed = NoTable /\ analysis_results = "empty"
  /\ hebrew = FALSE /\ pdf = BlankLayout /\ attempted = <<>> /\ log = {}
  /\ outputs = <<>> /\ fileExists = FALSE /\ result = "pending"

(***************************************************************************)
(* Columns handed to coerce_numeric.                                       *)
(***************************************************************************)
MaxSeriesLen == 3

SeriesCells ==
  { Null,
    Num(7, 0),
    Str(<<"1", "2">>),
    Str(<<"$", "1", ",", "5", "0", "0">>),
    Str(<<"5", "%">>),
    Str(<<"a", "b">>),
    Str(<<"N", "o", "n", "e">>),
    Str(<<"-", "+", "3">>) }

SeriesInputs == UNION {[1..n -> SeriesCells] : n \in 0..MaxSeriesLen}

NumInit == series \in SeriesInputs /\ coerced = Pending /\ ValIdle /\ DateIdle /\ ReportIdle /\ MoreIdle /\ LateIdle

CoerceColumn ==
  /\ coerced = Pending
  /\ coerced' = coerce_numeric(series)
  /\ UNCHANGED <<series, amount, valOut, dateCol, dateOut, reportVars, moreVars, lateVars>>

NumNext == CoerceColumn

SpecNum == NumInit /\ [][NumNext]_vars

(***************************************************************************)
(* Strings handed to clean_numeric_value: an amount written the US way     *)
(* (',' between groups of three, '.' before the decimals), decorated with  *)
(* a sign, a currency symbol, parentheses or a percent sign.  '$' stands   *)
(* for any currency symbol: the code removes them all with one re.sub.     *)
(***************************************************************************)
IntParts == {0, 5, 15, 500, 1234, 1500}
FracParts == {<<>>, <<"5">>, <<"5", "6">>}

AmountInputs ==
  { a \in [sign : {"", "+", "-"}, cur : {"", "$"}, paren : BOOLEAN, pct : BOOLEAN,
           int : IntParts, grouped : BOOLEAN, frac : FracParts] :
      /\ a.paren => a.sign = ""
      /\ a.grouped => a.int >= 1000
      /\ a.pct => a.cur = ""
      /\ a.cur # "" \/ a.pct \/ a.paren }

IntText(a) ==
  IF a.grouped
    THEN NatToStr(a.int \div 1000) \o <<",">> \o PadZeros(NatToStr(a.int % 1000), 3)
  ELSE NatToStr(a.int)

\* the string as written, e.g. ($1,234.56) or -15%
RenderAmount(a) ==
  (IF a.paren THEN <<"(">> ELSE <<>>)
  \o (IF a.sign = "" THEN <<>> ELSE <<a.sign>>)
  \o (IF a.cur = "" THEN <<>> ELSE <<a.cur>>)
  \o IntText(a)
  \o (IF a.frac = <<>> THEN <<>> ELSE <<".">> \o a.frac)
  \o (IF a.pct THEN <<"%">> ELSE <<>>)
  \o (IF a.paren THEN <<")">> ELSE <<>>)

\* the number the string denotes
AmountValue(a) ==
  LET mag == a.int * Pow10(Len(a.frac)) + DigitsToNat(a.frac)
      e == Len(a.frac) + (IF a.pct THEN 2 ELSE 0)
  IN Norm(IF a.sign = "-" \/ a.paren THEN 0 - mag ELSE mag, e)

ValInit == amount \in AmountInputs /\ valOut = Pending /\ NumIdle /\ DateIdle /\ ReportIdle /\ MoreIdle /\ LateIdle

CleanValue ==
  /\ valOut = Pending
  /\ valOut' = clean_numeric_value(Str(RenderAmount(amount)))
  /\ UNCHANGED <<series, coerced, amount, dateCol, dateOut, reportVars, moreVars, lateVars>>

ValNext == CleanValue

SpecVal == ValInit /\ [][ValNext]_vars

(***************************************************************************)
(* Claims about the value coercion.                                        *)
(***************************************************************************)
ConvertedCount(col) ==
  Cardinality({i \in 1..Len(col) : clean_numeric_value(CleanCell(col[i])).k = "num"})

NonNullCount(col) == Cardinality({i \in 1..Len(col) : ~IsNa(col[i])})

\* the same values cell by cell: both missing, or the same number
SameNumbers(a, b) ==
  /\ Len(a) = Len(b)
  /\ \A i \in 1..Len(a) : (IsNa(a[i]) /\ IsNa(b[i])) \/ NumEq(a[i], b[i])

\* C7: coerce_numeric never raises, and gives back either the column it was
\* given or a column whose every cell is a number or missing, never a column
\* that mixes converted numbers with original values.
Thm_C7_AllOrNothing ==
  coerced # Pending =>
    /\ coerced.exc = "none"
    /\ \/ coerced.col = series
       \/ \A i \in 1..Len(coerced.col) : coerced.col[i].k \in {"num", "nan"}

\* a text column accepted although one of its cells did not convert
Wit_C7_AcceptedWithFailedCell ==
  /\ coerced # Pending
  /\ coerced.col # series
  /\ \E i \in 1..Len(series) : series[i].k = "str" /\ coerced.col[i] = NaN
  /\ \E i \in 1..Len(series) : series[i].k = "str" /\ coerced.col[i].k = "num"

\* C8: the conversion is accepted exactly when the column has a non-null
\* value and at least 50% of its non-null values converted; otherwise the
\* column comes back cell for cell as it was given.
Thm_C8_HalfThreshold ==
  coerced # Pending =>
    IF NonNullCount(series) > 0 /\ 2 * ConvertedCount(series) >= NonNullCount(series)
      THEN SameNumbers(coerced.col, NumericSeries(series))
      ELSE coerced.col = series

\* a text column of which exactly half converted, accepted
Wit_C8_ExactlyHalf ==
  /\ coerced # Pending
  /\ DType(series) = "object"
  /\ NonNullCount(series) > 0
  /\ 2 * ConvertedCount(series) = NonNullCount(series)
  /\ coerced.col # series

\* C9: the value computed for a string that writes a currency amount, a
\* percentage or a parenthesized negative is the number the string denotes.
Cex_C9_ValueCorrect ==
  valOut # Pending => NumEq(valOut, AmountValue(amount))

(***************************************************************************)
(* Columns handed to detect_and_parse_dates: two runs of equal cells, long *)
(* enough for the sample of the first 10 non-null values to leave some out.*)
(***************************************************************************)
MaxRun == 7

DateCells ==
  { Null,
    Str(<<"1", "5", "/", "0", "1", "/", "2", "0", "2", "0">>),      \* looks like a date, parses
    Str(<<"9", "9", "/", "9", "9", "/", "2", "0", "2", "0">>),      \* looks like a date, does not parse
    Str(<<"2", "0", "2", "0", "0", "1", "1", "5">>),                \* parses, does not look like one
    Str(<<"i", "n", "v", "a", "l", "i", "d">>),                     \* neither
    Num(7, 0) }                                                      \* a number

Repeat(c, n) == [i \in 1..n |-> c]

DateColumns ==
  { col \in { Repeat(c1, n1) \o Repeat(c2, n2) : c1 \in DateCells, c2 \in DateCells,
                                                 n1 \in 0..MaxRun, n2 \in 0..MaxRun } :
      \* numbers and text are not mixed: a column is text-typed or numeric
      ~(\E i \in 1..Len(col) : col[i].k = "num") \/ ~(\E i \in 1..Len(col) : col[i].k = "str") }

DateInit == dateCol \in DateColumns /\ dateOut = Pending /\ NumIdle /\ ValIdle /\ ReportIdle /\ MoreIdle /\ LateIdle

ParseDates ==
  /\ dateOut = Pending
  /\ dateOut' = LET r == detect_and_parse_dates(<<dateCol>>)
                IN IF r.exc = "none" THEN Returned(r.col[1]) ELSE r
  /\ UNCHANGED <<series, coerced, amount, valOut, dateCol, reportVars, moreVars, lateVars>>

DateNext == ParseDates

SpecDate == DateInit /\ [][DateNext]_vars

FirstNonNull(col) == FirstN(DropNa(col), 10)

LooksLikeDateCount(col) ==
  Cardinality({i \in 1..Len(FirstNonNull(col)) : MatchesDateIndicator(Strip(AsStr(FirstNonNull(col)[i])))})

ParsedCount(col) == Cardinality({i \in 1..Len(col) : to_datetime(col)[i].k = "date"})

\* C10: the column is replaced by its day-first parse exactly when it is
\* text-typed, more than 30% of its first (up to 10) non-null values look like
\* dates and at least 60% of its non-null values parse; otherwise it comes
\* back unchanged; the call never raises.
Thm_C10_DateThresholds ==
  dateOut # Pending =>
    /\ dateOut.exc = "none"
    /\ IF /\ DType(dateCol) = "object"
          /\ 10 * LooksLikeDateCount(dateCol) > 3 * Len(FirstNonNull(dateCol))
          /\ 10 * ParsedCount(dateCol) >= 6 * NonNullCount(dateCol)
         THEN dateOut.col = to_datetime(dateCol)
         ELSE dateOut.col = dateCol

\* a converted column with a value that did not parse, at exactly 60%
Wit_C10_ConvertedWithNaT ==
  /\ dateOut # Pending
  /\ dateOut.col # dateCol
  /\ \E i \in 1..Len(dateCol) : dateCol[i].k = "str" /\ dateOut.col[i] = NaT
  /\ 10 * ParsedCount(dateCol) = 6 * NonNullCount(dateCol)

(***************************************************************************)
(* generate_complete_data_report(df), pdf_report.py lines 1535-1575, with  *)
(* generate_comprehensive_report, lines 1431-1532, one action per step.    *)
(***************************************************************************)
MaxRows == 1
MaxCols == 1

TableCells == {Null, Str(<<"$", "1", "2">>), Str(<<"a", "b">>)}

\* the labels pandas gives the columns of a table built without labels
DefaultLabels(n) == [c \in 1..n |-> IntLabel(c - 1)]

\* two labels that are different and normalize to the same identifier
CollidingLabels == <<Str(<<"a", " ", "1">>), Str(<<"a", "_", "1">>)>>

\* the tables handed to the report: tables with the default labels, and
\* tables of two columns with the colliding labels
Tables ==
  UNION {{NamedTable(DefaultLabels(Len(cols)), r, cols)
            : cols \in UNION {[1..n -> [1..r -> TableCells]] : n \in 0..MaxCols}}
           : r \in 0..MaxRows}
  \cup {NamedTable(CollidingLabels, MaxRows, cols) : cols \in [1..2 -> [1..MaxRows -> TableCells]]}

Init ==
  /\ pc = "start" /\ table \in Tables /\ processed = NoTable /\ analysis_results = "empty"
  /\ hebrew = FALSE /\ pdf = BlankLayout /\ attempted = <<>> /\ log = {}
  /\ outputs = <<>> /\ fileExists = FALSE /\ result = "pending"
  /\ NumIdle /\ ValIdle /\ DateIdle /\ MoreIdle /\ LateIdle

Others == <<series, coerced, amount, valOut, dateCol, dateOut, moreVars, lateVars>>

\* what the layout calls of a program log when the family is not registered
LayoutLog(ops, registered) ==
  IF registered THEN {}
  ELSE {"Error adding section header" : i \in {j \in 1..Len(ops) : ops[j].op = "H"}}
       \cup {"Error adding text" : i \in {j \in 1..Len(ops) : ops[j].op = "T"}}

\* lines 1554-1556
Validate ==
  /\ pc = "start"
  /\ IF IsEmpty(table)
       THEN /\ result' = "None" /\ pc' = "done"
            /\ log' = log \cup {"DataFrame is empty or None"}
       ELSE /\ pc' = "construct"
            /\ UNCHANGED <<result, log>>
  /\ UNCHANGED <<table, processed, analysis_results, hebrew, pdf, attempted, outputs, fileExists, Others>>

\* line 1561: HebrewPDFReport(), in a font environment
Construct ==
  /\ pc = "construct"
  /\ \E env \in FontEnvs :
       /\ hebrew' = (RegisteredFonts(resolve_hebrew_fonts(env).pair) # NoFonts)
       /\ log' = IF hebrew' THEN log ELSE log \cup {"Using fallback core font"}
  /\ pdf' = BlankLayout
  /\ pc' = "preprocess"
  /\ UNCHANGED <<table, processed, analysis_results, attempted, outputs, fileExists, result, Others>>

\* line 1439: preprocess_df(df) on the table with its labels; line 147 of
\* preprocess.py raises when the normalized labels are not unique
preprocess_df_labelled(df) ==
  IF ~IsEmpty(df) /\ HasDuplicates(NormalizedNames(df.names))
    THEN [exc |-> "AttributeError", df |-> df]
  ELSE preprocess_df(df)

\* lines 1439-1443, and lines 1522-1523 when preprocess_df raises
Preprocess ==
  /\ pc = "preprocess"
  /\ \E res \in {preprocess_df_labelled(table)} :
        IF res.exc # "none"
          THEN /\ pc' = "rescue"
               /\ log' = log \cup {"Error generating comprehensive report"}
               /\ UNCHANGED <<processed, result>>
        ELSE IF IsEmpty(res.df)
          THEN /\ processed' = res.df /\ result' = "None" /\ pc' = "done"
               /\ log' = log \cup {"DataFrame is empty after preprocessing"}
        ELSE /\ processed' = res.df /\ pc' = "analyze"
             /\ UNCHANGED <<result, log>>
  /\ UNCHANGED <<table, analysis_results, hebrew, pdf, attempted, outputs, fileExists, Others>>

\* lines 1448-1457: analyze_real_data gives the analysis, or fails and {} is used
Analyze ==
  /\ pc = "analyze"
  /\ \E a \in {"computed", "empty"} :
       /\ analysis_results' = a
       /\ log' = IF a = "empty" THEN log \cup {"Analysis had errors"} ELSE log
  /\ pc' = "title"
  /\ UNCHANGED <<table, processed, hebrew, pdf, attempted, outputs, fileExists, result, Others>>

\* lines 1460-1468
TitlePage ==
  /\ pc = "title"
  /\ pdf' = create_title_page(pdf, hebrew)
  /\ log' = IF hebrew THEN log ELSE log \cup {"Error creating title page"}
  /\ pc' = "toc"
  /\ UNCHANGED <<table, processed, analysis_results, hebrew, attempted, outputs, fileExists, result, Others>>

\* lines 1471-1484
TableOfContents ==
  /\ pc = "toc"
  /\ pdf' = Exec(table_of_contents, pdf, hebrew)
  /\ log' = log \cup LayoutLog(table_of_contents, hebrew)
  /\ pc' = "sections"
  /\ UNCHANGED <<table, processed, analysis_results, hebrew, attempted, outputs, fileExists, result, Others>>

\* what the except block of a section logs
SectionError(stage) ==
  CASE stage = "data_preview" -> "Error adding data preview section"
    [] stage = "missing_values" -> "Error adding missing values section"
    [] stage = "categorical" -> "Error adding categorical distributions section"
    [] stage = "numeric" -> "Error adding numeric distributions section"
    [] stage = "stats_summary" -> "Error adding statistical summary section"
    [] stage = "outliers" -> "Error adding outliers section"
    [] stage = "recommendations" -> "Error adding recommendations"

\* lines 1218-1255: add_guaranteed_sections calls the next section function;
\* its try block runs to the end or raises at one of its R
Section ==
  /\ pc = "sections"
  /\ \E stage \in {Stages[Len(attempted) + 1]} :
     \E primary \in {Primary(stage, analysis_results, processed)} :
     \E f \in 0..NumR(primary) :
       /\ attempted' = Append(attempted, stage)
       /\ IF f > 0 /\ ~SectionCatches(stage)
            THEN \E calls \in {Cut(primary, f) \o OrchestratorFallback} :
                   /\ pdf' = Exec(calls, pdf, hebrew)
                   /\ log' = log \cup {"Error in add_guaranteed_sections"} \cup LayoutLog(calls, hebrew)
                   /\ pc' = "charts"
            ELSE \E calls \in {SectionCalls(stage, primary, f)} :
                   /\ pdf' = Exec(calls, pdf, hebrew)
                   /\ log' = log \cup (IF f > 0 THEN {SectionError(stage)} ELSE {})
                                 \cup LayoutLog(calls, hebrew)
                   /\ pc' = IF Len(attempted') = Len(Stages) THEN "charts" ELSE "sections"
  /\ UNCHANGED <<table, processed, analysis_results, hebrew, outputs, fileExists, result, Others>>

\* lines 1491-1501: create_visualizations gives the chart files, or fails and
\* gives none
Charts ==
  /\ pc = "charts"
  /\ \E drawn \in BOOLEAN :
     \E chart_files \in {IF drawn THEN create_visualizations(processed) ELSE <<>>} :
     \E calls \in {ChartCalls(chart_files)} :
       /\ pdf' = Exec(calls, pdf, hebrew)
       /\ log' = log \cup (IF drawn THEN {} ELSE {"Error creating visualizations"})
                     \cup (IF chart_files = <<>> THEN {"No charts were created"} ELSE {})
                     \cup LayoutLog(calls, hebrew)
  /\ pc' = "save"
  /\ UNCHANGED <<table, processed, analysis_results, hebrew, attempted, outputs, fileExists, result, Others>>

\* lines 1511-1520: self.pdf.output(output_path) writes the file or raises
Save ==
  /\ pc = "save"
  /\ \E written \in BOOLEAN :
       IF written
         THEN /\ outputs' = Append(outputs, "written")
              /\ fileExists' = TRUE /\ result' = "path" /\ pc' = "done"
              /\ UNCHANGED log
       ELSE /\ outputs' = Append(outputs, "OSError")
            /\ log' = log \cup {"Error generating comprehensive report"}
            /\ pc' = "rescue"
            /\ UNCHANGED <<fileExists, result>>
  /\ UNCHANGED <<table, processed, analysis_results, hebrew, pdf, attempted, Others>>

\* an except block that makes no further attempt
RescueGivesUp ==
  /\ pc = "rescue"
  /\ result' = "None" /\ pc' = "done"
  /\ UNCHANGED <<table, processed, analysis_results, hebrew, pdf, attempted, log, outputs, fileExists, Others>>

\* lines 1522-1532: the except block writes what there is
Rescue ==
  /\ pc = "rescue"
  /\ \E written \in BOOLEAN :
       IF written
         THEN /\ outputs' = Append(outputs, "written")
              /\ fileExists' = TRUE /\ result' = "path"
       ELSE /\ outputs' = Append(outputs, "OSError")
            /\ result' = "None"
            /\ UNCHANGED fileExists
  /\ pc' = "done"
  /\ UNCHANGED <<table, processed, analysis_results, hebrew, pdf, attempted, log, Others>>

Next ==
  \/ Validate
  \/ Construct
  \/ Preprocess
  \/ Analyze
  \/ TitlePage
  \/ TableOfContents
  \/ Section
  \/ Charts
  \/ Save
  \/ Rescue

Spec == Init /\ [][Next]_vars

(***************************************************************************)
(* Claims about the report.  add_guaranteed_sections has returned when pc  *)
(* is "charts".                                                            *)
(***************************************************************************)
\* a title with no content line before the next title or the end
TitleOnly(doc, i) ==
  doc[i].kind = "title" /\ (i = Len(doc) \/ doc[i + 1].kind = "title")

TitleCount(doc, title) ==
  Cardinality({i \in 1..Len(doc) : doc[i].kind = "title" /\ doc[i].key = title})

AllStageErrors == {SectionError(Stages[n]) : n \in 1..Len(Stages)}

\* C1: with the Hebrew family registered, once add_guaranteed_sections has
\* returned, every title drawn is followed by a content line before the next
\* title or the end of the document.
Cex_C1_NoTitleOnlySection ==
  (hebrew /\ pc = "charts") => \A i \in 1..Len(pdf.doc) : ~TitleOnly(pdf.doc, i)

\* C2: with the Hebrew family registered, once add_guaranteed_sections has
\* returned, each of the seven stage titles has been drawn exactly once.
Cex_C2_EachTitleOnce ==
  (hebrew /\ pc = "charts") =>
    \A n \in 1..Len(Stages) : TitleCount(pdf.doc, StageTitle(Stages[n])) = 1

\* C3: the sections are attempted in the fixed order, and whatever sections
\* failed, add_guaranteed_sections returns only after all seven were attempted.
Thm_C3_AllStagesInOrder ==
  /\ attempted = SubSeq(Stages, 1, Len(attempted))
  /\ pc \in {"charts", "save"} => attempted = Stages

\* every one of the seven sections failed and all were attempted
Wit_C3_EveryStageFailed ==
  pc = "charts" /\ attempted = Stages /\ AllStageErrors \subseteq log

\* C4: generate_complete_data_report returns None only when writing the file
\* failed, and when it returns the path the file exists.
Cex_C4_NoneOnlyWhenUnwritable ==
  pc = "done" =>
    /\ result = "None" => \E i \in 1..Len(outputs) : outputs[i] = "OSError"
    /\ result = "path" => fileExists

\* C5: for a table of 0 rows, when no write fails, the call returns the path of
\* a file that exists, with every guaranteed section in it.
Cex_C5_EmptyTableReport ==
  (pc = "done" /\ table.rows = 0 /\ \A i \in 1..Len(outputs) : outputs[i] # "OSError") =>
    /\ result = "path" /\ fileExists
    /\ attempted = Stages

\* C6: when no font is resolved the fallback font is logged, and a report that
\* is returned holds the title page, the table of contents and, for each of the
\* seven sections, its title with a content line.
Cex_C6_DegradedStillWritten ==
  (~hebrew /\ pc = "done" /\ result = "path") =>
    /\ "Using fallback core font" \in log
    /\ \E i \in 1..Len(pdf.doc) : pdf.doc[i].kind = "cover"
    /\ TitleCount(pdf.doc, "table_of_contents") >= 1
    /\ \A n \in 1..Len(Stages) :
         \E i \in 1..(Len(pdf.doc) - 1) :
           /\ pdf.doc[i].kind = "title" /\ pdf.doc[i].key = StageTitle(Stages[n])
           /\ pdf.doc[i + 1].kind = "text"


\* C19: when the final write, the one that follows the seven sections and
\* the charts, fails, exactly one more write of the document
\* as it stands is attempted before the call returns; the call returns the
\* path when that attempt wrote the file and None when it failed, and no
\* report is written more than twice.
Thm_C19_OneRescueWrite ==
  /\ Len(outputs) <= 2
  /\ (pc = "rescue" /\ outputs # <<>>) => (outputs = <<"OSError">> /\ result = "pending")
  /\ (pc = "done" /\ attempted = Stages /\ outputs # <<>> /\ outputs[1] = "OSError") =>
       /\ Len(outputs) = 2
       /\ result = "path" <=> (outputs[2] = "written" /\ fileExists)
       /\ result = "None" <=> outputs[2] = "OSError"

\* the final write failed and the second attempt wrote the report
Wit_C19_RescuedReport ==
  pc = "done" /\ outputs = <<"OSError", "written">> /\ result = "path" /\ attempted = Stages

\* the log has an entry that tells how the section of a stage was rendered:
\* the only entries that name a section are those of the except blocks
StatusRecorded(stage) == SectionError(stage) \in log

\* C27: once add_guaranteed_sections has returned, there is for each of the
\* seven sections a record of whether it was rendered from its primary or
\* from its fallback content.
Cex_C27_EveryStatusRecorded ==
  pc = "charts" => \A n \in 1..Len(Stages) : StatusRecorded(Stages[n])

\* the places of the document where a cover line was drawn
CoverPlaces(doc) == {i \in 1..Len(doc) : doc[i].kind = "cover"}

\* the places of the document where a title of keys was drawn
TitlePlaces(doc, keys) == {i \in 1..Len(doc) : doc[i].kind = "title" /\ doc[i].key \in keys}

StageTitles == {StageTitle(Stages[n]) : n \in 1..Len(Stages)}

ChartTitles == {"charts_section", "charts_visualizations"}

\* every place of from comes before every place of to
AllBefore(from, to) == \A i \in from, j \in to : i < j

\* C26: the steps of one report come in the order title page, table of
\* contents, the seven sections in their fixed order, charts section, file
\* write: no section is attempted or drawn before the table of contents, the
\* charts section is not drawn before a section, and a write of the file is
\* attempted only after the title page, the table of contents, the seven
\* sections and the charts section.
Cex_C26_WriteAfterAllSteps ==
  /\ attempted = SubSeq(Stages, 1, Len(attempted))
  /\ attempted # <<>> => pc \notin {"start", "construct", "preprocess", "analyze", "title", "toc"}
  /\ AllBefore(CoverPlaces(pdf.doc), TitlePlaces(pdf.doc, {"table_of_contents"}))
  /\ AllBefore(TitlePlaces(pdf.doc, {"table_of_contents"}), TitlePlaces(pdf.doc, StageTitles))
  /\ AllBefore(TitlePlaces(pdf.doc, StageTitles), TitlePlaces(pdf.doc, ChartTitles))
  /\ outputs # <<>> =>
       /\ attempted = Stages
       /\ pdf.pages >= 1
       /\ hebrew => /\ CoverPlaces(pdf.doc) # {}
                    /\ TitlePlaces(pdf.doc, {"table_of_contents"}) # {}
                    /\ TitlePlaces(pdf.doc, ChartTitles) # {}

(***************************************************************************)
(* Labels handed to normalize_column_name, and the identifier it returned  *)
(* handed to it again.                                                     *)
(***************************************************************************)
MaxNameLen == 3

NameChars == AsciiWordChars \cup OtherWordChars \cup HebrewBlock \cup Whitespace \cup {"$"}

Labels == {Str(s) : s \in UNION {[1..n -> NameChars] : n \in 0..MaxNameLen}} \cup {IntLabel(0), IntLabel(12)}

OldIdle == NumIdle /\ ValIdle /\ DateIdle /\ ReportIdle

NameInit ==
  /\ colName \in Labels /\ normalized = Pending /\ renormalized = Pending
  /\ OldIdle /\ PrepIdle /\ FontIdle /\ WrapIdle /\ ConcIdle /\ LangIdle /\ LateIdle

Normalize ==
  /\ normalized = Pending
  /\ normalized' = Returned(normalize_column_name(colName))
  /\ UNCHANGED <<colName, renormalized, oldVars, prepVars, fontVars, wrapVars, concVars, langVars, lateVars>>

NormalizeAgain ==
  /\ normalized # Pending /\ renormalized = Pending
  /\ renormalized' = Returned(normalize_column_name(Str(normalized.col)))
  /\ UNCHANGED <<colName, normalized, oldVars, prepVars, fontVars, wrapVars, concVars, langVars, lateVars>>

NameNext == Normalize \/ NormalizeAgain

SpecName == NameInit /\ [][NameNext]_vars

\* C11: normalize_column_name gives a non-empty identifier for every label,
\* and gives that same identifier back when it is applied to it.
Thm_C11_Idempotent ==
  /\ normalized # Pending => normalized.exc = "none" /\ normalized.col # <<>>
  /\ renormalized # Pending => renormalized = normalized

\* a label that normalization changed, normalized a second time
Wit_C11_ChangedThenStable ==
  /\ renormalized # Pending
  /\ colName.k = "str" /\ normalized.col # colName.s
  /\ \E i \in 1..Len(colName.s) : colName.s[i] = "$"

SafeChars == AsciiWordChars \cup HebrewBlock

\* C13: an identifier returned by normalize_column_name has only ASCII
\* letters, ASCII digits, underscores and characters of U+0590..U+05FF.
Cex_C13_OnlySafeChars ==
  normalized # Pending =>
    \A i \in 1..Len(normalized.col) : normalized.col[i] \in SafeChars \cup {"c", "o", "l", "u", "m", "n"}


(***************************************************************************)
(* Tables with their column labels handed to preprocess_df.                *)
(***************************************************************************)
MaxPrepRows == 1
MaxPrepCols == 2

PrepLabels == {Str(<<"a", " ", "1">>), Str(<<"a", "_", "1">>), Str(<<"$">>), Str(<<"U+05D0">>)}

PrepCells == {Null, Str(<<"$", "1", "2">>), Str(<<"1", "/", "2", "/", "2", "0", "2", "0">>)}

NamedTables ==
  UNION {UNION {{NamedTable(names, r, cols) : names \in [1..c -> PrepLabels], cols \in [1..c -> [1..r -> PrepCells]]}
                : c \in 0..MaxPrepCols} : r \in 0..MaxPrepRows}

PrepInit ==
  /\ rawTable \in NamedTables /\ heap = <<rawTable>> /\ prepOut = PrepPending
  /\ OldIdle /\ NameIdle /\ FontIdle /\ WrapIdle /\ ConcIdle /\ LangIdle /\ LateIdle

CallPreprocess ==
  /\ prepOut = PrepPending
  /\ \E res \in {preprocess_df_in(heap, 1)} :
        /\ heap' = res.heap
        /\ prepOut' = [exc |-> res.exc, ret |-> res.ret]
  /\ UNCHANGED <<rawTable, oldVars, nameVars, fontVars, wrapVars, concVars, langVars, lateVars>>

PrepNext == CallPreprocess

SpecPrep == PrepInit /\ [][PrepNext]_vars

\* C12: when the labels of the table passed in are pairwise different,
\* preprocess_df returns a table whose column identifiers are pairwise
\* different.
Cex_C12_DistinctIdentifiers ==
  (prepOut # PrepPending /\ ~HasDuplicates(rawTable.names)) =>
    /\ prepOut.exc = "none"
    /\ ~HasDuplicates(heap[prepOut.ret].names)

\* C18: after a call of preprocess_df the caller's table has the labels, the
\* cells and the column types it had when it was passed in.
Thm_C18_RawTableUnchanged ==
  prepOut # PrepPending =>
    /\ heap[1] = rawTable
    /\ \A c \in 1..Len(rawTable.cols) : DType(heap[1].cols[c]) = DType(rawTable.cols[c])

\* a call that renamed a column and converted one, and returned a new table
Wit_C18_CleanedCopyReturned ==
  /\ prepOut.exc = "none" /\ prepOut.ret # 1
  /\ Len(heap[prepOut.ret].names) = Len(rawTable.names)
  /\ \E c \in 1..Len(rawTable.names) : heap[prepOut.ret].names[c] # rawTable.names[c]
  /\ \E c \in 1..Len(rawTable.cols) : DType(heap[prepOut.ret].cols[c]) # DType(rawTable.cols[c])

\* C21: no error raised while a column is examined or converted leaves
\* preprocess_df: every call returns a table.
Cex_C21_CoercionErrorsContained ==
  prepOut # PrepPending =>
    /\ prepOut.exc = "none"
    /\ prepOut.ret \in 1..Len(heap)


(***************************************************************************)
(* resolve_hebrew_fonts() in every environment.                            *)
(***************************************************************************)
FontInit ==
  /\ fontEnv \in FontEnvs /\ fontOut = FontPending
  /\ OldIdle /\ NameIdle /\ PrepIdle /\ WrapIdle /\ ConcIdle /\ LangIdle /\ LateIdle

ResolveFonts ==
  /\ fontOut = FontPending
  /\ fontOut' = resolve_hebrew_fonts(fontEnv)
  /\ UNCHANGED <<fontEnv, oldVars, nameVars, prepVars, wrapVars, concVars, langVars, lateVars>>

FontNext == ResolveFonts

SpecFont == FontInit /\ [][FontNext]_vars

\* C14: resolve_hebrew_fonts returns (None, None) or two paths of files that
\* exist when it returns, never a pair with one path missing.
Thm_C14_BothExistOrNone ==
  fontOut # FontPending =>
    \/ fontOut.pair = NoFonts
    \/ /\ fontOut.pair[1] \in fontOut.files
       /\ fontOut.pair[2] \in fontOut.files

\* the pair came from the download tier, which wrote a file that was not
\* there, after a variable that names a missing file was passed over
Wit_C14_DownloadedPair ==
  /\ fontOut # FontPending
  /\ fontOut.pair # NoFonts
  /\ fontOut.tried[Len(fontOut.tried)] = "download"
  /\ fontOut.pair[2] \notin fontEnv.files
  /\ fontEnv.REPORT_FONT_REGULAR # <<None>> /\ fontEnv.REPORT_FONT_REGULAR \notin fontEnv.files

PriorityOrder == <<"assets", "env", "system", "download">>

TierResult(env, tier) ==
  CASE tier = "assets" -> _check_repository_fonts(env)
    [] tier = "env" -> _check_environment_fonts(env)
    [] tier = "system" -> _scan_system_fonts(env)
    [] tier = "download" -> _download_noto_fonts(env).pair

\* C15: the tiers are tried in the order assets, environment, system,
\* download; the pair returned is the pair of the last tier tried, every
\* tier tried before it failed, and when a tier before the download tier
\* succeeded nothing was requested from the network and no file was written.
Thm_C15_FirstSuccessWins ==
  fontOut # FontPending =>
    /\ fontOut.tried = SubSeq(PriorityOrder, 1, Len(fontOut.tried))
    /\ \A k \in 1..(Len(fontOut.tried) - 1) : ~Both(TierResult(fontEnv, PriorityOrder[k]))
    /\ fontOut.pair # NoFonts => fontOut.pair = TierResult(fontEnv, fontOut.tried[Len(fontOut.tried)])
    /\ fontOut.pair = NoFonts => fontOut.tried = PriorityOrder
    /\ fontOut.tried # PriorityOrder => fontOut.requests = <<>> /\ fontOut.files = fontEnv.files

\* the environment tier succeeded although the later tiers would have too
Wit_C15_LaterTiersSkipped ==
  /\ fontOut # FontPending
  /\ fontOut.tried = <<"assets", "env">>
  /\ Both(_scan_system_fonts(fontEnv))
  /\ Both(_download_noto_fonts(fontEnv).pair) /\ _download_noto_fonts(fontEnv).requests # <<>>


\* C22: when the system scan is reached and finds a regular font and no bold
\* one, the resolution ends at the system tier and the family 'Hebrew' is
\* registered with that regular font for both weights.
Cex_C22_RegularOnlySystemFont ==
  (/\ fontOut # FontPending
   /\ Len(fontOut.tried) >= 3
   /\ _scan_system_fonts(fontEnv) = <<<<"system", "Regular">>, <<None>>>>) =>
    /\ fontOut.tried = <<"assets", "env", "system">>
    /\ RegisteredFonts(fontOut.pair) = <<<<"system", "Regular">>, <<"system", "Regular">>>>


\* C23: a resolution asks the network at most once for each weight, every
\* request with the timeout, and never for a weight whose file is in the
\* download directory; when a request failed no Hebrew font is registered.
Thm_C23_OneRequestPerWeight ==
  fontOut # FontPending =>
    /\ \A w \in {"Regular", "Bold"} :
         Cardinality({n \in 1..Len(fontOut.requests) : fontOut.requests[n].weight = w}) <= 1
    /\ \A n \in 1..Len(fontOut.requests) :
         /\ fontOut.requests[n].timeout = DownloadTimeout
         /\ ~Exists(fontEnv.files, <<fontEnv.writable, fontOut.requests[n].weight>>)
         /\ ~fontEnv.http[fontOut.requests[n].weight] => RegisteredFonts(fontOut.pair) = NoFonts

\* the regular file was in the download directory, the bold one was asked for
\* once, the request failed and the resolution ended with no font
Wit_C23_FailedRequestDegrades ==
  /\ fontOut # FontPending
  /\ fontOut.tried = PriorityOrder
  /\ Exists(fontEnv.files, <<fontEnv.writable, "Regular">>)
  /\ fontOut.requests = <<Request("Bold")>>
  /\ ~fontEnv.http["Bold"]
  /\ fontOut.pair = NoFonts


(***************************************************************************)
(* Texts and widths handed to _wrap_text_rtl.                              *)
(***************************************************************************)
MaxTextLen == 5
MaxWidth == 6

WrapChars == {"a", "W", " ", "U+05D0"}

Texts == UNION {[1..n -> WrapChars] : n \in 0..MaxTextLen}

WrapInit ==
  /\ wrapText \in Texts /\ wrapWidth \in 0..MaxWidth /\ wrapOut = Pending
  /\ OldIdle /\ NameIdle /\ PrepIdle /\ FontIdle /\ ConcIdle /\ LangIdle /\ LateIdle

WrapText ==
  /\ wrapOut = Pending
  /\ wrapOut' = Returned(_wrap_text_rtl(wrapText, wrapWidth))
  /\ UNCHANGED <<wrapText, wrapWidth, oldVars, nameVars, prepVars, fontVars, concVars, langVars, lateVars>>

WrapNext == WrapText

SpecWrap == WrapInit /\ [][WrapNext]_vars

\* lines 470-472, 349-353: the width of a line as add_text draws it
RenderedWidth(line) == _get_text_width(_fix_hebrew_text(Strip(line)))

SingleWord(line) == \A i \in 1..Len(line) : line[i] \notin Whitespace

Thm_C28_WordsPreserved ==
  wrapOut # Pending =>
    /\ Concat([n \in 1..Len(wrapOut.col) |-> Split(wrapOut.col[n])]) = Split(wrapText)
    /\ \A n \in 1..Len(wrapOut.col) : Split(wrapOut.col[n]) # <<>>

\* a text of three words with a Hebrew one, wrapped into a line of two words
\* and a line of one
Wit_C28_ThreeWordsTwoLines ==
  /\ wrapOut # Pending
  /\ Len(Split(wrapText)) = 3
  /\ \E n \in 1..3 : Split(wrapText)[n] = <<"U+05D0">>
  /\ Len(wrapOut.col) = 2
  /\ Len(Split(wrapOut.col[1])) = 2


(***************************************************************************)
(* Two calls of generate_complete_data_report running concurrently,        *)
(* pdf_report.py lines 1535-1575, interleaved step by step.  A call has    *)
(* its locals (self, chart_files, the index i of add_charts_section) and   *)
(* the origin of the images it has embedded; the instances live in         *)
(* objects; the directory 'charts' and output_path are shared by all calls.*)
(***************************************************************************)
Reports == {1, 2}

ConcTables ==
  { Table(1, <<<<Str(<<"a", "b">>)>>>>),
    Table(2, <<<<Str(<<"a", "b">>), Null>>>>) }

NewCall(df) == [df |-> df, step |-> "new", self |-> 0, chart_files |-> <<>>, i |-> 0, embedded |-> <<>>]

\* one instance for all calls
SharedInstance(objs, registered) ==
  [objects |-> IF objs = <<>> THEN <<[lay |-> BlankLayout, hebrew |-> registered]>> ELSE objs, id |-> 1]

\* lines 42-51 and 1561: HebrewPDFReport() makes a new instance with its own
\* FPDF object, fonts and current_y
NewInstance(objs, registered) ==
  [objects |-> Append(objs, [lay |-> BlankLayout, hebrew |-> registered]), id |-> Len(objs) + 1]

ConcInit ==
  /\ running \in [Reports -> {NewCall(df) : df \in ConcTables}]
  /\ objects = <<>> /\ chartsDir = [f \in {} |-> 0] /\ outputFile = 0
  /\ OldIdle /\ NameIdle /\ PrepIdle /\ FontIdle /\ WrapIdle /\ LangIdle /\ LateIdle

NotConc == <<oldVars, nameVars, prepVars, fontVars, wrapVars, langVars, lateVars>>

\* line 1561
ConcConstruct(r) ==
  /\ running[r].step = "new"
  /\ \E registered \in BOOLEAN :
       \E made \in {NewInstance(objects, registered)} :
          /\ objects' = made.objects
          /\ running' = [running EXCEPT ![r].self = made.id, ![r].step = "title"]
  /\ UNCHANGED <<chartsDir, outputFile, NotConc>>

\* what a method of the instance self does to it
OnSelf(r, lay) == [objects EXCEPT ![running[r].self].lay = lay]

\* line 1460
ConcTitlePage(r) ==
  /\ running[r].step = "title"
  /\ objects' = OnSelf(r, create_title_page(objects[running[r].self].lay, objects[running[r].self].hebrew))
  /\ running' = [running EXCEPT ![r].step = "sections"]
  /\ UNCHANGED <<chartsDir, outputFile, NotConc>>

\* line 1488, for its first section
ConcSections(r) ==
  /\ running[r].step = "sections"
  /\ objects' = OnSelf(r, Exec(add_data_preview_section(running[r].df), objects[running[r].self].lay,
                               objects[running[r].self].hebrew))
  /\ running' = [running EXCEPT ![r].step = "visualize"]
  /\ UNCHANGED <<chartsDir, outputFile, NotConc>>

\* line 1493: the chart files are written to the directory 'charts'
ConcVisualize(r) ==
  /\ running[r].step = "visualize"
  /\ \E made \in {create_visualizations(running[r].df)} :
       /\ running' = [running EXCEPT ![r].chart_files = made, ![r].step = "charts"]
       /\ chartsDir' = [f \in (DOMAIN chartsDir) \cup {made[n] : n \in 1..Len(made)} |->
                          IF \E n \in 1..Len(made) : made[n] = f THEN r ELSE chartsDir[f]]
  /\ UNCHANGED <<objects, outputFile, NotConc>>

\* lines 1419-1420: FPDF.image reads the file as it is when add_chart is called;
\* the image embedded is the one written by the call that wrote the file last
EmbeddedFrom(dir, chart_files) == [n \in 1..Len(chart_files) |-> dir[chart_files[n]]]

\* lines 1494-1501: add_charts_section reads the files and counts them with i
ConcCharts(r) ==
  /\ running[r].step = "charts"
  /\ objects' = OnSelf(r, Exec(ChartCalls(running[r].chart_files), objects[running[r].self].lay,
                               objects[running[r].self].hebrew))
  /\ running' = [running EXCEPT ![r].i = Len(running[r].chart_files), ![r].step = "save",
                                ![r].embedded = EmbeddedFrom(chartsDir, running[r].chart_files)]
  /\ UNCHANGED <<chartsDir, outputFile, NotConc>>

\* line 1511
ConcSave(r) ==
  /\ running[r].step = "save"
  /\ outputFile' = r
  /\ running' = [running EXCEPT ![r].step = "done"]
  /\ UNCHANGED <<objects, chartsDir, NotConc>>

ConcNext ==
  \E r \in Reports :
    \/ ConcConstruct(r)
    \/ ConcTitlePage(r)
    \/ ConcSections(r)
    \/ ConcVisualize(r)
    \/ ConcCharts(r)
    \/ ConcSave(r)

SpecConc == ConcInit /\ [][ConcNext]_vars

\* the construction state of the call r: its instance and its chart counter
Construction(cs, objs, r) == <<objs[cs[r].self], cs[r].i>>

\* C17: two calls never work on the same instance, and a step of one call
\* leaves the cursor, the fonts and the chart counter of every other call as
\* they were.
Thm_C17_PrivateState ==
  /\ [](\A r, q \in Reports : (r # q /\ running[r].self # 0 /\ running[q].self # 0) => running[r].self # running[q].self)
  /\ [][\A r \in Reports :
          (running[r].self # 0 /\ running'[r] = running[r]) =>
             Construction(running', objects', r) = Construction(running, objects, r)]_vars

\* both calls are between their title page and their charts, and the chart
\* file of one has been overwritten by the other
Wit_C17_Interleaved ==
  /\ running[1].step = "charts" /\ running[2].step = "charts"
  /\ running[1].chart_files # <<>>
  /\ \A n \in 1..Len(running[1].chart_files) : chartsDir[running[1].chart_files[n]] = 2
  /\ objects[running[1].self].lay # objects[running[2].self].lay

\* C30: every chart image embedded in a report was written by the call that
\* generates that report.
Cex_C30_OwnChartsEmbedded ==
  \A r \in Reports : \A n \in 1..Len(running[r].embedded) : running[r].embedded[n] = r


(***************************************************************************)
(* Calls of t(key, lang) under every setting of REPORT_LANG.               *)
(***************************************************************************)
LookupKeys ==
  {HEBREW_TEXTS[n].key : n \in 1..Len(HEBREW_TEXTS)}
  \cup {ENGLISH_TEXTS[n].key : n \in 1..Len(ENGLISH_TEXTS)}
  \cup {"nonexistent_key", "missing_values_title", "", "Data Preview"}

LangInit ==
  /\ tKey \in LookupKeys /\ tLang \in {None, "he", "en", "fr"} /\ tEnv \in {None, "he", "en"}
  /\ tOut = Pending
  /\ OldIdle /\ NameIdle /\ PrepIdle /\ FontIdle /\ WrapIdle /\ ConcIdle /\ LateIdle

Translate ==
  /\ tOut = Pending
  /\ tOut' = t(tKey, tLang, tEnv)
  /\ UNCHANGED <<tKey, tLang, tEnv, oldVars, nameVars, prepVars, fontVars, wrapVars, concVars, lateVars>>

LangNext == Translate

SpecLang == LangInit /\ [][LangNext]_vars

ActiveLanguage == IF tLang # None THEN tLang ELSE IF tEnv # None THEN tEnv ELSE "he"

\* C20: t(key) returns the text of the active language when it defines the
\* key, else the text of the fallback language when that defines it, else
\* the key; Hebrew is the default and falls back to English; no call raises.
Cex_C20_LookupNeverRaises ==
  tOut # Pending =>
    /\ tOut.exc = "none"
    /\ tOut.col = Lookup(ActiveLanguage, tKey)

(***************************************************************************)
(* Strings of digits, ',' and '.' handed to clean_numeric_value.           *)
(***************************************************************************)
MaxSepLen == 6

SepChars == {"0", "1", "5", ",", "."}

SepTexts == UNION {[1..n -> SepChars] : n \in 0..MaxSepLen}

SepInit ==
  /\ sepText \in SepTexts /\ sepOut = Pending /\ LayIdle
  /\ OldIdle /\ MoreIdle

CleanSeparated ==
  /\ sepOut = Pending
  /\ sepOut' = clean_numeric_value(Str(sepText))
  /\ UNCHANGED <<sepText, layVars, oldVars, moreVars>>

SepNext == CleanSeparated

SpecSep == SepInit /\ [][SepNext]_vars

\* the digits of s, and how many of them stand after the last c
DigitsOf(s) == SelectSeq(s, LAMBDA c : c \in Digits)

DigitsAfterLast(s, c) == Cardinality({i \in (RFind(s, c) + 1)..Len(s) : s[i] \in Digits})

\* the separator of s that occurs later than the other one does
LaterSeparator(s) == IF Find(s, ",") < Find(s, ".") THEN "." ELSE ","

\* the number of decimals the stated rules give s, -1 where they give none
RuleDecimals(s) ==
  IF Contains(s, ",") /\ Contains(s, ".")
    THEN (IF Count(s, LaterSeparator(s)) = 1 THEN DigitsAfterLast(s, LaterSeparator(s)) ELSE -1)
  ELSE IF Count(s, ",") >= 2 THEN 0
  ELSE IF Count(s, ",") = 1
    THEN (IF DigitsAfterLast(s, ",") = 3 THEN 0
          ELSE IF DigitsAfterLast(s, ",") \in {1, 2} THEN DigitsAfterLast(s, ",")
          ELSE -1)
  ELSE -1

\* C24: for a string of digits and separators that the stated rules cover,
\* the number returned is the number its digits write with the decimals the
\* rules give: the later of ',' and '.' is the decimal point; a lone comma
\* before three digits and the commas of a string with several are dropped;
\* a lone comma before one or two digits is the decimal point.
Thm_C24_SeparatorRules ==
  (sepOut # Pending /\ RuleDecimals(sepText) >= 0 /\ DigitsOf(sepText) # <<>>) =>
    NumEq(sepOut, Norm(DigitsToNat(DigitsOf(sepText)), RuleDecimals(sepText)))

\* a number written the European way, '.' between the thousands and ','
\* before the decimals, converted
Wit_C24_EuropeanAmount ==
  /\ sepOut # Pending
  /\ Find(sepText, ".") = 2 /\ Find(sepText, ",") = Len(sepText) - 1 /\ Len(sepText) = MaxSepLen
  /\ Count(sepText, ".") = 1 /\ Count(sepText, ",") = 1
  /\ sepOut.k = "num" /\ sepOut.e = 1

(***************************************************************************)
(* Sequences of add_section_header, add_text and add_chart calls on one    *)
(* instance after its title page, pdf_report.py lines 415-478 and          *)
(* 1407-1429.  layState.doc holds what the last call drew.                 *)
(***************************************************************************)
MaxPages == 3
MaxLines == 3

\* the font sizes the sections pass to add_text
FontSizes == {9, 10, 11, 12}

\* the layout with nothing drawn by the call that starts
BeforeCall(lay) == [lay EXCEPT !.doc = <<>>]

LayInit ==
  /\ layFonts \in BOOLEAN
  /\ layState = BeforeCall(create_title_page(BlankLayout, layFonts))
  /\ SepIdle /\ OldIdle /\ MoreIdle

LayHeader ==
  /\ layState.pages < MaxPages
  /\ layState' = add_section_header(BeforeCall(layState), layFonts, "title")
  /\ UNCHANGED <<layFonts, sepVars, oldVars, moreVars>>

LayText ==
  /\ layState.pages < MaxPages
  /\ \E font_size \in FontSizes, nlines \in 0..MaxLines :
       layState' = add_text_lines(BeforeCall(layState), layFonts, "text", font_size, nlines)
  /\ UNCHANGED <<layFonts, sepVars, oldVars, moreVars>>

LayChart ==
  /\ layState.pages < MaxPages
  /\ layState' = add_chart(BeforeCall(layState), "chart.png")
  /\ UNCHANGED <<layFonts, sepVars, oldVars, moreVars>>

LayNext == LayHeader \/ LayText \/ LayChart

SpecLayout == LayInit /\ [][LayNext]_vars

\* C25: every text line is drawn with the cursor at or above the threshold of
\* add_text, 30 above the page bottom, and every header after a test of the
\* cursor against the threshold of add_section_header, 50 above the bottom.
Cex_C25_CheckBeforeEveryLine ==
  \A i \in 1..Len(layState.doc) :
    /\ layState.doc[i].kind = "text" => layState.doc[i].y <= 10 * (page_height - 30)
    /\ layState.doc[i].kind = "title" => layState.doc[i].y - 150 <= 10 * (page_height - 50)

\* C29: an image is drawn on a page with its lower edge, 100 below the
\* cursor, on the page.
Thm_C29_ChartOnPage ==
  \A i \in 1..Len(layState.doc) :
    layState.doc[i].kind = "image" =>
      /\ layState.doc[i].page >= 1
      /\ layState.doc[i].y + 1000 <= 10 * page_height

\* an image drawn with the cursor exactly at page height minus 120, on a page
\* after the first
Wit_C29_ChartAtThreshold ==
  /\ Len(layState.doc) = 1
  /\ layState.doc[1].kind = "image"
  /\ layState.doc[1].y = 10 * (page_height - 120)
  /\ layState.doc[1].page > 1

============================================================================
